---- MODULE Spec2Model ----
(***************************************************************************)
(* Model of the 3D transform-gizmo interaction system of                   *)
(* simple_3d_graphics_engine (src/src/systems/gizmo_3d_system) together    *)
(* with the parts of the transform store, camera ray caster and ray math   *)
(* it calls.                                                               *)
(*                                                                         *)
(* Numbers: the program computes in float32.  The model computes in the    *)
(* integers: vectors are triples of integers, a matrix is the tuple of its *)
(* three basis columns and its translation column, angles are counted in   *)
(* quarter turns, a ray direction is kept as a primitive integer vector    *)
(* (normalisation divides by the gcd instead of the norm), and a quotient  *)
(* that ends up in a position is rounded down.  Quantities that are only   *)
(* compared (squared distances, ray parameters) are kept as exact          *)
(* fractions <<numerator, denominator>>.  Python's None is 0 for a uid and *)
(* the empty tuple for a vector or matrix.                                 *)
(***************************************************************************)
EXTENDS Integers, Sequences, FiniteSets, TLC

(***************************************************************************)
(* Bounds of the model                                                     *)
(***************************************************************************)
\* Positions written by a drag are kept inside the cube [-MaxCoord, MaxCoord]^3
MaxCoord == 2

\* the number of drags a behaviour may start
MaxDrags == 1

\* the number of events the editor's loop delivers between two frame updates
MaxEventsPerFrame == 1

\* library calls take the coordinates of their points in -MaxPoint..MaxPoint
MaxPoint == 3

\* number of entities of a scene whose transform tree is ordered
MaxEntities == 3

(***************************************************************************)
(* Vector and matrix helpers (src.math.mat4 / numpy)                       *)
(***************************************************************************)
Abs(n) == IF n < 0 THEN -n ELSE n

Zero3 == <<0, 0, 0>>

VAdd(a, b) == <<a[1] + b[1], a[2] + b[2], a[3] + b[3]>>

VSub(a, b) == <<a[1] - b[1], a[2] - b[2], a[3] - b[3]>>

VScale(k, a) == <<k * a[1], k * a[2], k * a[3]>>

Dot(a, b) == a[1] * b[1] + a[2] * b[2] + a[3] * b[3]

Length2(a) == Dot(a, a)

RECURSIVE Gcd(_, _)
Gcd(a, b) == IF b = 0 THEN a ELSE Gcd(b, a % b)

\* ray_direction /= np.linalg.norm(ray_direction): the direction keeps its
\* orientation and loses its length
Normalize(v) ==
    LET g == Gcd(Gcd(Abs(v[1]), Abs(v[2])), Abs(v[3]))
    IN  IF g = 0 THEN v ELSE <<v[1] \div g, v[2] \div g, v[3] \div g>>

\* np.eye(4): columns x, y, z and translation
Eye4 == <<<<1, 0, 0>>, <<0, 1, 0>>, <<0, 0, 1>>, Zero3>>

\* in_mat4[:3, index]
Column(m, index) == m[index + 1]

\* in_mat4[:3, 3]
Translation(m) == m[4]

\* rotation-and-scale part of in_mat4 applied to a direction
MulDirection(m, v) == VAdd(VAdd(VScale(v[1], m[1]), VScale(v[2], m[2])), VScale(v[3], m[3]))

\* mat4.mul_vector3: in_mat4 applied to the point in_vec3
mul_vector3(in_mat4, in_vec3) == VAdd(MulDirection(in_mat4, in_vec3), in_mat4[4])

\* a @ b for affine 4x4 matrices
MatMul(a, b) ==
    <<MulDirection(a, b[1]), MulDirection(a, b[2]), MulDirection(a, b[3]), mul_vector3(a, b[4])>>

\* mat4.fast_inverse / mat4.even_faster_inverse of a rigid transform:
\* transposed rotation, translation - R^T t
fast_inverse(m) ==
    LET rt == <<<<m[1][1], m[2][1], m[3][1]>>,
                <<m[1][2], m[2][2], m[3][2]>>,
                <<m[1][3], m[2][3], m[3][3]>>, Zero3>>
    IN  <<rt[1], rt[2], rt[3], VScale(-1, MulDirection(rt, m[4]))>>

\* cosine and sine of k quarter turns
CosQ(k) == <<1, 0, -1, 0>>[(k % 4) + 1]

SinQ(k) == <<0, 1, 0, -1>>[(k % 4) + 1]

RotX(k) == <<<<1, 0, 0>>, <<0, CosQ(k), SinQ(k)>>, <<0, -SinQ(k), CosQ(k)>>, Zero3>>

RotY(k) == <<<<CosQ(k), 0, -SinQ(k)>>, <<0, 1, 0>>, <<SinQ(k), 0, CosQ(k)>>, Zero3>>

RotZ(k) == <<<<CosQ(k), SinQ(k), 0>>, <<-SinQ(k), CosQ(k), 0>>, <<0, 0, 1>>, Zero3>>

\* mat4.create_transform_euler_xyz(position, rotation, scale)
create_transform_euler_xyz(position, rotation, scale) ==
    LET r == MatMul(RotZ(rotation[3]), MatMul(RotY(rotation[2]), RotX(rotation[1])))
    IN  <<VScale(scale, r[1]), VScale(scale, r[2]), VScale(scale, r[3]), position>>

(***************************************************************************)
(* Ray math (src.math.ray_intersection, src/src3/math_3d.py)               *)
(***************************************************************************)
\* a fraction <<n, d>> with d > 0, in lowest terms
Frac(n, d) ==
    LET g == Gcd(Abs(n), Abs(d))
    IN  IF g = 0 THEN <<n, d>> ELSE <<n \div g, d \div g>>

FracLess(x, y) == x[1] * y[2] < y[1] * x[2]

\* ray_intersection.ray2ray_nearest_point_on_ray_0: the point of ray 0 nearest
\* to ray 1 by the two-line closest-point formula; parallel rays fall back to
\* the projection of ray 1's origin onto ray 0
ray2ray_nearest_point_on_ray_0(ray_0_origin, ray_0_direction, ray_1_origin, ray_1_direction) ==
    LET w == VSub(ray_0_origin, ray_1_origin)
        a == Dot(ray_0_direction, ray_0_direction)
        b == Dot(ray_0_direction, ray_1_direction)
        c == Dot(ray_1_direction, ray_1_direction)
        d == Dot(ray_0_direction, w)
        e == Dot(ray_1_direction, w)
        denom == a * c - b * b
        sn == IF denom = 0 THEN -d ELSE b * e - c * d
        sd == IF denom = 0 THEN a ELSE denom
    IN  IF sd = 0 THEN ray_0_origin
        ELSE <<ray_0_origin[1] + ((ray_0_direction[1] * sn) \div sd),
               ray_0_origin[2] + ((ray_0_direction[2] * sn) \div sd),
               ray_0_origin[3] + ((ray_0_direction[3] * sn) \div sd)>>

\* nearest_point_on_segment: ts is the segment parameter of the nearest point
\* and tr the ray parameter of the closest approach.  The source takes a unit
\* ray_direction d; with the integer direction D = |D| d the quantities are
\* r = R/|D|, t = T/|D|, and the model returns ts and u = tr/|D| as fractions,
\* so that the point of the ray is ray_origin + u D.
nearest_point_on_segment(ray_origin, ray_direction, p0, p1) ==
    LET ldir == VSub(p1, p0)
        p == VSub(p0, ray_origin)
        c == Length2(ray_direction)
        q == Length2(ldir)
        R == Dot(ldir, ray_direction)
        s == Dot(ldir, p)
        T == Dot(ray_direction, p)
        denom == q * c - R * R            \* (q - r*r) * c
        sn == R * T - s * c               \* (r*t - s) * c
        tn == q * T - R * s               \* (q*t - r*s) * |D|
        \* first block: (ts, tn's sign, u) before the test tn < 0.0
        first == IF denom <= 0 THEN [ts |-> <<0, 1>>, tnsign |-> T, u |-> Frac(T, c)]
                 ELSE IF sn < 0 THEN [ts |-> <<0, 1>>, tnsign |-> T, u |-> Frac(T, c)]
                 ELSE IF sn > denom THEN [ts |-> <<1, 1>>, tnsign |-> T + R, u |-> Frac(T + R, c)]
                 ELSE [ts |-> Frac(sn, denom), tnsign |-> tn, u |-> Frac(tn, denom)]
    IN  IF first.tnsign < 0
        THEN [ts |-> IF R >= 0 THEN <<0, 1>> ELSE IF s <= q THEN <<1, 1>> ELSE Frac(-s, q),
              tr |-> <<0, 1>>]
        ELSE [ts |-> first.ts, tr |-> first.u]

\* distance2_ray_segment, after its call of nearest_point_on_segment returned
\* n: the squared distance between the point of the ray at n.tr and the point
\* of the segment at n.ts, as a fraction
Distance2At(n, ray_origin, ray_direction, p0, p1) ==
    LET den == (n.tr[2] * n.ts[2]) \div Gcd(n.tr[2], n.ts[2])
        \* den * (p - nearest_point)
        diff == VSub(VAdd(VScale(den, VSub(ray_origin, p0)),
                          VScale(n.tr[1] * (den \div n.tr[2]), ray_direction)),
                     VScale(n.ts[1] * (den \div n.ts[2]), VSub(p1, p0)))
    IN  Frac(Length2(diff), den * den)

distance2_ray_segment(ray_origin, ray_direction, p0, p1) ==
    Distance2At(nearest_point_on_segment(ray_origin, ray_direction, p0, p1),
                ray_origin, ray_direction, p0, p1)

\* the test distance2 < radius * radius of intersect_ray_capsules
WithinRadius(d2, radius_num, radius_den) ==
    d2[1] * radius_den * radius_den < radius_num * radius_num * d2[2]

\* intersect_ray_capsules for one capsule, after nearest_point_on_segment
\* returned n
CapsuleDistance(n, ray_origin, ray_direction, p0, p1, radius_num, radius_den) ==
    IF WithinRadius(Distance2At(n, ray_origin, ray_direction, p0, p1), radius_num, radius_den)
    THEN n.tr
    ELSE <<-1, 1>>

\* ray_intersection.intersect_ray_capsules for one capsule: the ray parameter
\* of the closest approach when the ray passes within radius_num/radius_den
\* of the segment, <<-1, 1>> (the source's -1.0) otherwise
intersect_ray_capsule(ray_origin, ray_direction, p0, p1, radius_num, radius_den) ==
    CapsuleDistance(nearest_point_on_segment(ray_origin, ray_direction, p0, p1),
                    ray_origin, ray_direction, p0, p1, radius_num, radius_den)

\* n / d as a fraction with a positive denominator, d # 0
Quotient(n, d) == IF d < 0 THEN Frac(-n, -d) ELSE Frac(n, d)

\* the parameter t both plane tests compute, for denom # 0
PlaneParameter(ray_origin, plane_normal, plane_offset, denom) ==
    Quotient(Dot(plane_normal, VScale(plane_offset, plane_normal)) - Dot(plane_normal, ray_origin),
             denom)

\* variant of intersect_ray_plane_boolean that rejects a ray starting on the
\* plane
intersect_ray_plane_boolean_strict(ray_origin, ray_direction, plane_normal, plane_offset) ==
    IF Dot(plane_normal, ray_direction) = 0 THEN FALSE
    ELSE PlaneParameter(ray_origin, plane_normal, plane_offset,
                        Dot(plane_normal, ray_direction))[1] > 0

intersect_ray_plane_boolean(ray_origin, ray_direction, plane_normal, plane_offset) ==
    IF Dot(plane_normal, ray_direction) = 0 THEN FALSE
    ELSE PlaneParameter(ray_origin, plane_normal, plane_offset,
                        Dot(plane_normal, ray_direction))[1] >= 0

\* intersect_ray_plane: (False, None) is [hit |-> FALSE, t |-> <<>>]
PlaneHit(t) == IF t[1] < 0 THEN [hit |-> FALSE, t |-> <<>>] ELSE [hit |-> TRUE, t |-> t]

intersect_ray_plane(ray_origin, ray_direction, plane_normal, plane_offset) ==
    IF Dot(plane_normal, ray_direction) = 0 THEN [hit |-> FALSE, t |-> <<>>]
    ELSE PlaneHit(PlaneParameter(ray_origin, plane_normal, plane_offset,
                                 Dot(plane_normal, ray_direction)))

\* a + b * sqrt(n) for integers a, b and n >= 0 is <<a, b, n>>; SurdLeq compares
\* two such numbers with the same n
SurdLeq(u, v) ==
    LET a == u[1] - v[1]
        b == v[2] - u[2]
    IN  IF a <= 0 /\ b >= 0 THEN TRUE
        ELSE IF a > 0 /\ b < 0 THEN FALSE
        ELSE IF a > 0 THEN a * a <= b * b * u[3]
        ELSE a * a >= b * b * u[3]

\* math_3d.intersect_ray_sphere_boolean
intersect_ray_sphere_boolean(ray_origin, ray_direction, sphere_origin, sphere_radius) ==
    LET p  == VSub(sphere_origin, ray_origin)
        p2 == Length2(p)
        q  == Dot(p, ray_direction)
        r2 == sphere_radius * sphere_radius
    IN  IF q < 0 /\ p2 > r2 THEN FALSE
        ELSE p2 - (q * q) <= r2

\* math_3d.intersect_ray_sphere: (False, None, None) is
\* [hit |-> FALSE, t0 |-> <<>>, t1 |-> <<>>]; s = sqrt(r2 - p2) makes
\* t0 = max(q - s, 0.0) and t1 = q + s
intersect_ray_sphere(ray_origin, ray_direction, sphere_origin, sphere_radius) ==
    LET p  == VSub(sphere_origin, ray_origin)
        q  == Dot(p, ray_direction)
        p2 == Length2(p) - q * q
        r2 == sphere_radius * sphere_radius
        s2 == r2 - p2
    IN  IF q < 0 THEN [hit |-> FALSE, t0 |-> <<>>, t1 |-> <<>>]
        ELSE IF p2 > r2 THEN [hit |-> FALSE, t0 |-> <<>>, t1 |-> <<>>]
        ELSE [hit |-> TRUE,
              t0  |-> IF SurdLeq(<<q, -1, s2>>, <<0, 0, s2>>) /\ ~SurdLeq(<<0, 0, s2>>, <<q, -1, s2>>)
                      THEN <<0, 0, s2>> ELSE <<q, -1, s2>>,
              t1  |-> <<q, 1, s2>>]

\* ray_intersection.intersect_ray_capsules for three capsules that start at
\* the same point: the three output distances
intersect_ray_capsules(ray_origin, ray_direction, point_a, points_b, radius_num, radius_den) ==
    [i \in 1..3 |-> intersect_ray_capsule(ray_origin, ray_direction, point_a, points_b[i],
                                          radius_num, radius_den)]

(***************************************************************************)
(* Camera ray caster (src/src/utilities/utils_camera.py)                   *)
(***************************************************************************)
\* variant of screen_gl_position_pixels2viewport_position that rejects the
\* pixels of the right and upper edge
screen_gl_position_pixels2viewport_position_open(position_pixels, viewport_pixels) ==
    IF position_pixels[1] < viewport_pixels[1] THEN <<>>
    ELSE IF position_pixels[1] >= viewport_pixels[1] + viewport_pixels[3] THEN <<>>
    ELSE IF position_pixels[2] < viewport_pixels[2] THEN <<>>
    ELSE IF position_pixels[2] >= viewport_pixels[2] + viewport_pixels[4] THEN <<>>
    ELSE <<<<2 * (position_pixels[1] - viewport_pixels[1]) - viewport_pixels[3], viewport_pixels[3]>>,
           <<2 * (position_pixels[2] - viewport_pixels[2]) - viewport_pixels[4], viewport_pixels[4]>>>>

\* screen_gl_position_pixels2viewport_position: <<>> is None, otherwise the
\* viewport coordinates as fractions <<<<xn, xd>>, <<yn, yd>>>>
screen_gl_position_pixels2viewport_position(position_pixels, viewport_pixels) ==
    IF position_pixels[1] < viewport_pixels[1] THEN <<>>
    ELSE IF position_pixels[1] > viewport_pixels[1] + viewport_pixels[3] THEN <<>>
    ELSE IF position_pixels[2] < viewport_pixels[2] THEN <<>>
    ELSE IF position_pixels[2] > viewport_pixels[2] + viewport_pixels[4] THEN <<>>
    ELSE <<<<2 * (position_pixels[1] - viewport_pixels[1]) - viewport_pixels[3], viewport_pixels[3]>>,
           <<2 * (position_pixels[2] - viewport_pixels[2]) - viewport_pixels[4], viewport_pixels[4]>>>>

\* screen_pos2world_ray: eye = (P^-1 clip).xy with z = -1, w = 0, carried to
\* the world by the camera matrix and normalised; the origin is the camera
\* matrix's translation.  inverse_projection_matrix is given by its entries
\* [0, 0] and [1, 1].
screen_pos2world_ray(viewport_coord_norm, camera_matrix, inverse_projection_matrix) ==
    LET xn == viewport_coord_norm[1][1]
        xd == viewport_coord_norm[1][2]
        yn == viewport_coord_norm[2][1]
        yd == viewport_coord_norm[2][2]
        eye_coordinates == <<inverse_projection_matrix[1] * xn * yd,
                             inverse_projection_matrix[2] * yn * xd,
                             -(xd * yd)>>
        world_coordinates == MulDirection(camera_matrix, eye_coordinates)
    IN  [ray_direction |-> Normalize(world_coordinates), ray_origin |-> Translation(camera_matrix)]

\* set_gizmo_scale followed by Gizmo3DSystem.update's
\* gizmo_scale *= GIZMO_3D_VIEWPORT_SCALE_COEFFICIENT / viewport_height
GIZMO_3D_ANGLE_TANGENT_COEFFICIENT == 1

GIZMO_3D_VIEWPORT_SCALE_COEFFICIENT == 2

set_gizmo_scale(view_matrix, object_position) ==
    LET view_position == mul_vector3(view_matrix, object_position)
    IN  Abs(view_position[3]) * GIZMO_3D_ANGLE_TANGENT_COEFFICIENT

(***************************************************************************)
(* The scene the system is run on                                          *)
(***************************************************************************)
\* camera pool in registration order: two cameras with overlapping viewports
CameraPool == <<1, 2>>

\* entities the user can select: 4 is a root entity, 5 is a child of 3; both
\* are rotated by a quarter turn about z
SelectableEntities == {4, 5}

\* scene.entities[uid].parent_uid (0 is None)
parent_uid(uid) == IF uid = 5 THEN 3 ELSE 0

\* uid given by scene.add_entity to the gizmo rig of a camera, and to the
\* rig's child entity named GIZMO_3D_AXES_NAME_ORDER[index]
RigUid(camera_uid) == 10 + camera_uid

AxisEntityUid(gizmo_uid, index) == 10 * gizmo_uid + index

\* Camera components: viewport rectangle (x, y, width, height) in pixels and
\* the entries [0, 0] and [1, 1] of the inverse projection matrix
camera_pool ==
    [c \in {1, 2} |->
        IF c = 1 THEN [viewport_pixels |-> <<0, 0, 4, 4>>, inverse_projection_matrix |-> <<1, 1>>]
                 ELSE [viewport_pixels |-> <<0, 0, 2, 2>>, inverse_projection_matrix |-> <<2, 2>>]]

\* Transform3D.__init__: the component as the scene file creates it
Transform3D(position, rotation, scale) ==
    [position |-> position, rotation |-> rotation, scale |-> scale,
     local_matrix |-> Eye4, world_matrix |-> Eye4,
     input_values_updated |-> TRUE, local_matrix_updated |-> FALSE]

SceneTransforms ==
    [u \in {1, 2, 3, 4, 5} |->
        CASE u = 1 -> Transform3D(<<0, 0, 4>>, Zero3, 1)
          [] u = 2 -> Transform3D(<<-4, -4, 2>>, Zero3, 1)
          [] u = 3 -> Transform3D(<<0, 2, 0>>, Zero3, 1)
          [] u = 4 -> Transform3D(Zero3, <<0, 0, 1>>, 1)
          [] u = 5 -> Transform3D(Zero3, <<0, 0, 1>>, 1)]

\* TransformSystem.entity_uid_update_order for this scene (parents first)
entity_uid_update_order == <<1, 2, 3, 4, 5, 11, 12>>

\* pixels the mouse events of the model carry: <<2, 2>> lies in both viewports,
\* <<3, 2>> and <<4, 2>> in the viewport of camera 1 only, <<5, 2>> in none
Pixels == {<<2, 2>>, <<3, 2>>, <<4, 2>>, <<5, 2>>}

\* the entity and the pixels of the drag scenarios: one camera owns the mouse
DragEntities == {4}

DragPixels == {<<3, 2>>, <<4, 2>>, <<5, 2>>}

MOUSE_LEFT == 0

MOUSE_RIGHT == 1

GIZMO_3D_AXES == <<<<1, 0, 0>>, <<0, 1, 0>>, <<0, 0, 1>>>>

GIZMO_3D_PLANE_CAMERA == 3

(***************************************************************************)
(* State                                                                   *)
(***************************************************************************)
VARIABLES
    \* Gizmo3DSystem
    selected_entity_uid,
    gizmo_state,
    gizmo_orientation,
    gizmo_selection_enabled,
    focused_gizmo_axis_index,
    focused_gizmo_plane,
    focused_camera_uid,
    mouse_screen_position,
    original_active_local_position,
    original_active_world_matrix,
    original_active_local_matrix,
    local_axis_offset_point,
    camera2gizmo_map,
    \* Scene component pools
    transform_3d_pool,
    gizmo_3d_pool,
    mesh_pool,
    material_pool,
    \* history: the events published by the last step, the event handled last,
    \* and gizmo_orientation as it was at the press that started the drag
    published,
    last_event,
    drag_start_orientation,
    \* history: the entity whose transform the press that started the drag recorded
    \* (0 for none)
    drag_start_entity,
    \* history: the number of drags started so far
    drags_started,
    \* the number of events delivered since the last frame update
    events_in_frame,
    \* the exception that left the last handler, "" while none has: an
    \* exception ends the run
    raised,
    \* history: how far the behaviour has followed the end-to-end translate
    \* scenario, as the specification words it and with the release of the
    \* selecting click added; -1 once the behaviour has left the scenario
    scenario,
    \* history: what the gizmo events published before the last step leave
    \* pending: an enter no leave has followed, an activation no deactivation
    \* has followed
    gizmo_events,
    \* a call of one of the library functions the system is built on: the
    \* function, its arguments and, once it has returned, its result
    call

vars == <<selected_entity_uid, gizmo_state, gizmo_orientation, gizmo_selection_enabled,
          focused_gizmo_axis_index, focused_gizmo_plane, focused_camera_uid,
          mouse_screen_position, original_active_local_position,
          original_active_world_matrix, original_active_local_matrix,
          local_axis_offset_point, camera2gizmo_map,
          transform_3d_pool, gizmo_3d_pool, mesh_pool, material_pool,
          published, last_event, drag_start_orientation, drag_start_entity, drags_started, events_in_frame,
          raised, scenario, gizmo_events, call>>

gizmo_vars == <<selected_entity_uid, gizmo_state, gizmo_orientation, gizmo_selection_enabled,
                focused_gizmo_axis_index, focused_gizmo_plane, focused_camera_uid,
                mouse_screen_position, original_active_local_position,
                original_active_world_matrix, original_active_local_matrix,
                local_axis_offset_point, camera2gizmo_map>>

snapshot_vars == <<original_active_local_position, original_active_world_matrix,
                   original_active_local_matrix, local_axis_offset_point>>

scene_vars == <<transform_3d_pool, gizmo_3d_pool, mesh_pool, material_pool>>

\* Gizmo3DSystem.gizmo_world_matrix: set in __init__ and never written again
gizmo_world_matrix == Eye4

\* history record of a step: the event handled, its button (0 when it has
\* none), its payload (<<>> when it has none) and the gizmo_state the handler
\* found
Event(type, button, data) ==
    [type |-> type, button |-> button, data |-> data, state |-> gizmo_state]

\* Gizmo3DSystem.__init__ on the scene above
\* no gizmo event was published yet
NoGizmoEvents == [entered |-> FALSE, activated |-> FALSE]

\* what is pending after one more published event
EventSeen(pending, event) ==
    IF event.event_type = "mouse_enter_gizmo_3d" THEN [pending EXCEPT !.entered = TRUE]
    ELSE IF event.event_type = "mouse_leave_gizmo_3d" THEN [pending EXCEPT !.entered = FALSE]
    ELSE IF event.event_type = "mouse_gizmo_3d_activated" THEN [pending EXCEPT !.activated = TRUE]
    ELSE IF event.event_type = "mouse_gizmo_3d_deactivated"
    THEN [pending EXCEPT !.activated = FALSE]
    ELSE pending

RECURSIVE EventsSeenUpTo(_, _, _)
\* what is pending after the first k events of a sequence
EventsSeenUpTo(pending, events, k) ==
    IF k = 0 THEN pending
    ELSE EventSeen(EventsSeenUpTo(pending, events, k - 1), events[k])

EventsSeen(pending, events) == EventsSeenUpTo(pending, events, Len(events))

\* no library call is being followed
NoCall == [fn |-> "", params |-> <<>>, result |-> <<>>, returned |-> FALSE]

Init ==
    /\ selected_entity_uid = 0
    /\ gizmo_state = "not_hovering"
    /\ gizmo_orientation = "global"
    /\ gizmo_selection_enabled = TRUE
    /\ focused_gizmo_axis_index = -1
    /\ focused_gizmo_plane = -1
    /\ focused_camera_uid = 0
    /\ mouse_screen_position = <<-1, -1>>
    /\ original_active_local_position = <<>>
    /\ original_active_world_matrix = <<>>
    /\ original_active_local_matrix = <<>>
    /\ local_axis_offset_point = Zero3
    /\ camera2gizmo_map = <<>>
    /\ transform_3d_pool = SceneTransforms
    /\ gizmo_3d_pool = <<>>
    /\ mesh_pool = <<>>
    /\ material_pool = <<>>
    /\ published = <<>>
    /\ last_event = Event("init", 0, <<>>)
    /\ drag_start_orientation = ""
    /\ drag_start_entity = 0
    /\ drags_started = 0
    /\ events_in_frame = 0
    /\ raised = ""
    /\ scenario = [original |-> 0, amended |-> 0]
    /\ gizmo_events = NoGizmoEvents
    /\ call = NoCall

(***************************************************************************)
(* Gizmo3DSystem: utility functions                                        *)
(***************************************************************************)
\* Camera.is_inside_viewport
is_inside_viewport(viewport_pixels, coord_pixels) ==
    LET flag_x == viewport_pixels[1] <= coord_pixels[1] /\ coord_pixels[1] <= viewport_pixels[3]
        flag_y == viewport_pixels[2] <= coord_pixels[2] /\ coord_pixels[2] <= viewport_pixels[4]
    IN  flag_x /\ flag_y

\* the loop of get_active_camera from the pool's index-th camera on
RECURSIVE ActiveCameraLoop(_, _, _)
ActiveCameraLoop(index, screen_gl_pixels, active_camera_uid) ==
    IF index > Len(CameraPool) THEN active_camera_uid
    ELSE IF ~is_inside_viewport(camera_pool[CameraPool[index]].viewport_pixels, screen_gl_pixels)
         THEN ActiveCameraLoop(index + 1, screen_gl_pixels, active_camera_uid)
         ELSE ActiveCameraLoop(index + 1, screen_gl_pixels, CameraPool[index])

\* get_active_camera: uid of the camera owning the pixel, 0 for None
get_active_camera(screen_gl_pixels) == ActiveCameraLoop(1, screen_gl_pixels, 0)

\* get_mouse_ray_point_on_axis, first half: the value it writes to
\* self.gizmo_transformed_axes.  The attribute is rewritten here before every
\* read of it (mouse_ray_check_axes_collision runs only after this call), so
\* the value is passed along instead of being kept as a state variable
TransformedAxes(active_camera_uid) ==
    LET gizmo_transform_component == transform_3d_pool[camera2gizmo_map[active_camera_uid]]
    IN  [i \in 1..3 |-> mul_vector3(gizmo_transform_component.world_matrix, GIZMO_3D_AXES[i])]

\* get_mouse_ray_point_on_axis, second half: the ray through position_pixels
\* (the caller's self.mouse_screen_position) for the active camera;
\* valid = FALSE is the source's (None, None)
get_mouse_ray_point_on_axis(active_camera_uid, position_pixels) ==
    LET camera_matrix == transform_3d_pool[active_camera_uid].world_matrix
        viewport_position == screen_gl_position_pixels2viewport_position(
                                 position_pixels, camera_pool[active_camera_uid].viewport_pixels)
        ray == screen_pos2world_ray(viewport_position, camera_matrix,
                                    camera_pool[active_camera_uid].inverse_projection_matrix)
    IN  IF viewport_position = <<>>
        THEN [valid |-> FALSE, ray_origin |-> Zero3, ray_direction |-> Zero3]
        ELSE [valid |-> TRUE, ray_origin |-> ray.ray_origin, ray_direction |-> ray.ray_direction]

\* intersect_ray_capsules as called by mouse_ray_check_axes_collision: the
\* three output distances
IntersectionDistances(ray, camera_uid, transformed_axes) ==
    LET gizmo_transform_component == transform_3d_pool[camera2gizmo_map[camera_uid]]
    IN  intersect_ray_capsules(ray.ray_origin, ray.ray_direction,
                               gizmo_transform_component.position, transformed_axes,
                               gizmo_transform_component.scale, 10)

\* np.where(distances > -1.0) followed by argmin: the first index whose
\* distance is minimal among the valid ones, -1 when none is valid
ArgMinValid(intersection_distances) ==
    LET valid_axis_indices == {i \in 1..3 : FracLess(<<-1, 1>>, intersection_distances[i])}
        best == {i \in valid_axis_indices :
                    \A j \in valid_axis_indices :
                        ~FracLess(intersection_distances[j], intersection_distances[i])}
    IN  IF valid_axis_indices = {} THEN -1
        ELSE (CHOOSE i \in best : \A j \in best : i <= j) - 1

\* mouse_ray_check_axes_collision
mouse_ray_check_axes_collision(ray, camera_uid, transformed_axes) ==
    ArgMinValid(IntersectionDistances(ray, camera_uid, transformed_axes))

\* get_projected_point_on_axis: the point of the focused axis nearest to the
\* ray, in the space of the selected entity's parent
get_projected_point_on_axis(ray, world_matrix, orientation, axis_index, entity_uid) ==
    LET axis_origin == Translation(world_matrix)
        axis_direction == IF orientation = "global"
                          THEN Column(gizmo_world_matrix, axis_index)
                          ELSE Column(world_matrix, axis_index)
        world_point_on_ray_0 == ray2ray_nearest_point_on_ray_0(axis_origin, axis_direction,
                                                               ray.ray_origin, ray.ray_direction)
        inverse_parent_matrix == IF parent_uid(entity_uid) = 0 THEN Eye4
                                 ELSE fast_inverse(transform_3d_pool[parent_uid(entity_uid)].world_matrix)
    IN  mul_vector3(inverse_parent_matrix, world_point_on_ray_0)

\* variant of set_all_gizmo_3d_visibility that reaches the rig of the first
\* camera only
set_all_gizmo_3d_visibility_first_camera(map, gizmos, meshes, visible) ==
    [m \in DOMAIN meshes |->
        IF /\ CameraPool[1] \in DOMAIN map
           /\ \E k \in 1..3 : gizmos[map[CameraPool[1]]].axes_entities_uids[k] = m
        THEN [meshes[m] EXCEPT !.visible = visible]
        ELSE meshes[m]]

\* set_all_gizmo_3d_visibility: the mesh pool after the call
set_all_gizmo_3d_visibility(map, gizmos, meshes, visible) ==
    [m \in DOMAIN meshes |->
        IF \E i \in 1..Len(CameraPool) :
               /\ CameraPool[i] \in DOMAIN map
               /\ \E k \in 1..3 : gizmos[map[CameraPool[i]]].axes_entities_uids[k] = m
        THEN [meshes[m] EXCEPT !.visible = visible]
        ELSE meshes[m]]

\* set_gizmo_to_selected_entity: the transform pool after the call
set_gizmo_to_selected_entity(entity_uid) ==
    LET selected_transform_component == transform_3d_pool[entity_uid]
    IN  [u \in DOMAIN transform_3d_pool |->
            IF \E i \in 1..Len(CameraPool) : camera2gizmo_map[CameraPool[i]] = u
            THEN [transform_3d_pool[u] EXCEPT
                      !.position = selected_transform_component.position,
                      !.rotation = selected_transform_component.rotation,
                      !.input_values_updated = TRUE]
            ELSE transform_3d_pool[u]]

(***************************************************************************)
(* Gizmo3DSystem: state handling                                           *)
(***************************************************************************)
handler_vars == <<gizmo_state, focused_gizmo_axis_index, original_active_local_position,
                  original_active_world_matrix, original_active_local_matrix,
                  local_axis_offset_point, transform_3d_pool, drag_start_orientation, drag_start_entity, drags_started,
                  raised>>

GizmoEvent(event_type, event_data) == [event_type |-> event_type, event_data |-> event_data]

InBox(v) == \A i \in 1..3 : -MaxCoord <= v[i] /\ v[i] <= MaxCoord

\* the event handler returned before calling a state handler
\* variant of NoStateHandler that falls back to the idle state
NoStateHandler_reset ==
    /\ published' = <<>>
    /\ gizmo_state' = "not_hovering"
    /\ UNCHANGED <<focused_gizmo_axis_index, snapshot_vars, transform_3d_pool,
                   drag_start_orientation, drag_start_entity, drags_started, raised>>

NoStateHandler ==
    /\ published' = <<>>
    /\ UNCHANGED handler_vars

\* variant of handle_state_not_hovering that enters hovering without
\* publishing the enter event
handle_state_not_hovering_silent(ray, camera_uid, transformed_axes, mouse_press) ==
    LET index == mouse_ray_check_axes_collision(ray, camera_uid, transformed_axes)
    IN  /\ focused_gizmo_axis_index' = index
        /\ IF index = -1
           THEN UNCHANGED gizmo_state
           ELSE gizmo_state' = "hovering_axis"
        /\ published' = <<>>
        /\ UNCHANGED <<snapshot_vars, transform_3d_pool, drag_start_orientation, drag_start_entity, drags_started, raised>>

handle_state_not_hovering(ray, camera_uid, transformed_axes, mouse_press) ==
    LET index == mouse_ray_check_axes_collision(ray, camera_uid, transformed_axes)
    IN  /\ focused_gizmo_axis_index' = index
        /\ IF index = -1
           THEN /\ published' = <<>>
                /\ UNCHANGED gizmo_state
           ELSE /\ gizmo_state' = "hovering_axis"
                /\ published' = <<GizmoEvent("mouse_enter_gizmo_3d", index)>>
        /\ UNCHANGED <<snapshot_vars, transform_3d_pool, drag_start_orientation, drag_start_entity, drags_started, raised>>

\* variant of handle_state_hovering_axis that starts a drag on a press whether
\* or not gizmo_selection_enabled is set
handle_state_hovering_axis_ungated(ray, camera_uid, transformed_axes, mouse_press) ==
    IF mouse_press
    THEN LET transform == transform_3d_pool[selected_entity_uid]
         IN  /\ gizmo_state' = "translating_on_axis"
             /\ original_active_local_position' = transform.position
             /\ original_active_world_matrix' = transform.world_matrix
             /\ original_active_local_matrix' = transform.local_matrix
             /\ local_axis_offset_point' =
                    get_projected_point_on_axis(ray, transform.world_matrix, gizmo_orientation,
                                                focused_gizmo_axis_index, selected_entity_uid)
             /\ published' = <<GizmoEvent("mouse_gizmo_3d_activated", focused_gizmo_axis_index)>>
             /\ drag_start_orientation' = gizmo_orientation
             /\ drag_start_entity' = selected_entity_uid
             /\ drags_started < MaxDrags
             /\ drags_started' = drags_started + 1
             /\ UNCHANGED <<focused_gizmo_axis_index, transform_3d_pool, raised>>
    ELSE IF ~gizmo_selection_enabled
    THEN NoStateHandler
    ELSE LET index == mouse_ray_check_axes_collision(ray, camera_uid, transformed_axes)
         IN  /\ focused_gizmo_axis_index' = index
             /\ IF index = -1
                THEN /\ gizmo_state' = "not_hovering"
                     /\ published' = <<GizmoEvent("mouse_leave_gizmo_3d", index)>>
                ELSE /\ published' = <<>>
                     /\ UNCHANGED gizmo_state
             /\ UNCHANGED <<snapshot_vars, transform_3d_pool, drag_start_orientation,
                            drag_start_entity, drags_started, raised>>

\* variant of handle_state_hovering_axis whose move keeps hovering when the
\* ray misses every axis
handle_state_hovering_axis_sticky(ray, camera_uid, transformed_axes, mouse_press) ==
    IF ~gizmo_selection_enabled
    THEN NoStateHandler
    ELSE IF mouse_press
    THEN LET transform == transform_3d_pool[selected_entity_uid]
         IN  /\ gizmo_state' = "translating_on_axis"
             /\ original_active_local_position' = transform.position
             /\ original_active_world_matrix' = transform.world_matrix
             /\ original_active_local_matrix' = transform.local_matrix
             /\ local_axis_offset_point' =
                    get_projected_point_on_axis(ray, transform.world_matrix, gizmo_orientation,
                                                focused_gizmo_axis_index, selected_entity_uid)
             /\ published' = <<GizmoEvent("mouse_gizmo_3d_activated", focused_gizmo_axis_index)>>
             /\ drag_start_orientation' = gizmo_orientation
             /\ drag_start_entity' = selected_entity_uid
             /\ drags_started < MaxDrags
             /\ drags_started' = drags_started + 1
             /\ UNCHANGED <<focused_gizmo_axis_index, transform_3d_pool, raised>>
    ELSE /\ focused_gizmo_axis_index' =
                mouse_ray_check_axes_collision(ray, camera_uid, transformed_axes)
         /\ published' = <<>>
         /\ UNCHANGED <<gizmo_state, snapshot_vars, transform_3d_pool,
                        drag_start_orientation, drag_start_entity, drags_started, raised>>

handle_state_hovering_axis(ray, camera_uid, transformed_axes, mouse_press) ==
    IF ~gizmo_selection_enabled
    THEN NoStateHandler
    ELSE IF mouse_press /\ selected_entity_uid \notin DOMAIN transform_3d_pool
    THEN \* gizmo_state is assigned before the pool lookup raises
         /\ gizmo_state' = "translating_on_axis"
         /\ raised' = "KeyError"
         /\ published' = <<>>
         /\ UNCHANGED <<focused_gizmo_axis_index, snapshot_vars, transform_3d_pool,
                        drag_start_orientation, drag_start_entity, drags_started>>
    ELSE IF mouse_press
    THEN LET transform == transform_3d_pool[selected_entity_uid]
         IN  /\ gizmo_state' = "translating_on_axis"
             /\ original_active_local_position' = transform.position
             /\ original_active_world_matrix' = transform.world_matrix
             /\ original_active_local_matrix' = transform.local_matrix
             /\ local_axis_offset_point' =
                    get_projected_point_on_axis(ray, transform.world_matrix, gizmo_orientation,
                                                focused_gizmo_axis_index, selected_entity_uid)
             /\ published' = <<GizmoEvent("mouse_gizmo_3d_activated", focused_gizmo_axis_index)>>
             /\ drag_start_orientation' = gizmo_orientation
             /\ drag_start_entity' = selected_entity_uid
             /\ drags_started < MaxDrags
             /\ drags_started' = drags_started + 1
             /\ UNCHANGED <<focused_gizmo_axis_index, transform_3d_pool, raised>>
    ELSE LET index == mouse_ray_check_axes_collision(ray, camera_uid, transformed_axes)
         IN  /\ focused_gizmo_axis_index' = index
             /\ IF index = -1
                THEN /\ gizmo_state' = "not_hovering"
                     /\ published' = <<GizmoEvent("mouse_leave_gizmo_3d", index)>>
                ELSE /\ published' = <<>>
                     /\ UNCHANGED gizmo_state
             /\ UNCHANGED <<snapshot_vars, transform_3d_pool, drag_start_orientation, drag_start_entity, drags_started, raised>>

handle_state_hovering_plane(ray, camera_uid, transformed_axes, mouse_press) ==
    NoStateHandler

\* variant of NewLocalPosition that keeps the entity where the drag started
NewLocalPosition_unmoved(ray) == original_active_local_position

\* variant of NewLocalPosition that adds the displacement to the entity's
\* current position instead of the drag-start position
NewLocalPosition_accumulated(ray) ==
    LET local_point_on_ray_0 ==
            get_projected_point_on_axis(ray, original_active_world_matrix, gizmo_orientation,
                                        focused_gizmo_axis_index, selected_entity_uid)
    IN  VAdd(VSub(local_point_on_ray_0, local_axis_offset_point),
             transform_3d_pool[selected_entity_uid].position)

\* the position handle_state_translate_on_axis writes
NewLocalPosition(ray) ==
    LET local_point_on_ray_0 ==
            get_projected_point_on_axis(ray, original_active_world_matrix, gizmo_orientation,
                                        focused_gizmo_axis_index, selected_entity_uid)
    IN  VAdd(VSub(local_point_on_ray_0, local_axis_offset_point), original_active_local_position)

\* variant of handle_state_translate_on_axis whose move ends the drag
handle_state_translate_on_axis_ends_drag(ray, camera_uid, transformed_axes, mouse_press) ==
    /\ gizmo_state' = "hovering_axis"
    /\ published' = <<>>
    /\ UNCHANGED <<focused_gizmo_axis_index, snapshot_vars, transform_3d_pool,
                   drag_start_orientation, drag_start_entity, drags_started, raised>>

\* variant of handle_state_translate_on_axis that takes a new snapshot of
\* the position on every move
handle_state_translate_on_axis_resnapshot(ray, camera_uid, transformed_axes, mouse_press) ==
    LET local_point_on_ray_0 ==
            get_projected_point_on_axis(ray, original_active_world_matrix, gizmo_orientation,
                                        focused_gizmo_axis_index, selected_entity_uid)
        position == VAdd(VSub(local_point_on_ray_0, local_axis_offset_point),
                         original_active_local_position)
    IN  /\ InBox(position)
        /\ transform_3d_pool' = [transform_3d_pool EXCEPT
                                    ![selected_entity_uid].position = position,
                                    ![selected_entity_uid].input_values_updated = TRUE]
        /\ original_active_local_position' = position
        /\ published' = <<>>
        /\ UNCHANGED <<gizmo_state, focused_gizmo_axis_index, original_active_world_matrix,
                       original_active_local_matrix, local_axis_offset_point,
                       drag_start_orientation, drag_start_entity, drags_started, raised>>

handle_state_translate_on_axis(ray, camera_uid, transformed_axes, mouse_press) ==
    IF selected_entity_uid \notin DOMAIN transform_3d_pool
    THEN \* the pool lookup raises before anything is written
         /\ raised' = "KeyError"
         /\ published' = <<>>
         /\ UNCHANGED <<gizmo_state, focused_gizmo_axis_index, snapshot_vars, transform_3d_pool,
                        drag_start_orientation, drag_start_entity, drags_started>>
    ELSE /\ InBox(NewLocalPosition(ray))
         /\ transform_3d_pool' = [transform_3d_pool EXCEPT
                                     ![selected_entity_uid].position = NewLocalPosition(ray),
                                     ![selected_entity_uid].input_values_updated = TRUE]
         /\ published' = <<>>
         /\ UNCHANGED <<gizmo_state, focused_gizmo_axis_index, snapshot_vars,
                        drag_start_orientation, drag_start_entity, drags_started, raised>>

handle_state_translate_on_plane(ray, camera_uid, transformed_axes, mouse_press) ==
    NoStateHandler

\* handle_state_rotate_axis(self, screen_gl_pixels, entering_state): the
\* dispatch calls it with the keywords ray_origin, ray_direction and
\* mouse_press, which it does not take
handle_state_rotate_axis(ray, camera_uid, transformed_axes, mouse_press) ==
    /\ raised' = "TypeError"
    /\ published' = <<>>
    /\ UNCHANGED <<gizmo_state, focused_gizmo_axis_index, snapshot_vars, transform_3d_pool,
                   drag_start_orientation, drag_start_entity, drags_started>>

\* self.state_handlers[self.gizmo_state](ray_origin, ray_direction, mouse_press)
state_handlers(ray, camera_uid, transformed_axes, mouse_press) ==
    CASE gizmo_state = "not_hovering" ->
             handle_state_not_hovering(ray, camera_uid, transformed_axes, mouse_press)
      [] gizmo_state = "hovering_axis" ->
             handle_state_hovering_axis(ray, camera_uid, transformed_axes, mouse_press)
      [] gizmo_state = "hovering_plane" ->
             handle_state_hovering_plane(ray, camera_uid, transformed_axes, mouse_press)
      [] gizmo_state = "translating_on_axis" ->
             handle_state_translate_on_axis(ray, camera_uid, transformed_axes, mouse_press)
      [] gizmo_state = "translating_on_plane" ->
             handle_state_translate_on_plane(ray, camera_uid, transformed_axes, mouse_press)
      [] gizmo_state = "rotate_around_axis" ->
             handle_state_rotate_axis(ray, camera_uid, transformed_axes, mouse_press)

\* screen2ray and the checks that follow it in the mouse handlers: the camera
\* owning screen_gl_pixels, the ray through position_pixels, and the call of
\* the state handler when both exist
ScreenToRayAndDispatch(screen_gl_pixels, position_pixels, mouse_press) ==
    LET active_camera_uid == get_active_camera(screen_gl_pixels)
    IN  /\ focused_camera_uid' = active_camera_uid
        /\ IF active_camera_uid = 0
           THEN NoStateHandler
           ELSE LET axes == TransformedAxes(active_camera_uid)
                    ray == get_mouse_ray_point_on_axis(active_camera_uid, position_pixels)
                IN  IF ~ray.valid
                    THEN NoStateHandler
                    ELSE state_handlers(ray, active_camera_uid, axes, mouse_press)

(***************************************************************************)
(* The end-to-end translate scenario                                       *)
(***************************************************************************)
\* the entity E of the scenario
ScenarioEntity == CHOOSE uid \in DragEntities : TRUE

\* a mouse move to pixel whose ray hits axis X and no other axis
HitsOnlyAxisX(pixel) ==
    LET camera_uid == get_active_camera(pixel)
        ray == get_mouse_ray_point_on_axis(camera_uid, pixel)
        distances == IntersectionDistances(ray, camera_uid, TransformedAxes(camera_uid))
    IN  /\ selected_entity_uid = ScenarioEntity
        /\ camera_uid # 0
        /\ ray.valid
        /\ distances[1][1] >= 0
        /\ distances[2][1] < 0
        /\ distances[3][1] < 0

\* a mouse move to pixel whose projected point lies 2 units further along X
\* than the projected point of the press
ProjectsTwoFurtherAlongX(pixel) ==
    LET camera_uid == get_active_camera(pixel)
        ray == get_mouse_ray_point_on_axis(camera_uid, pixel)
    IN  /\ selected_entity_uid = ScenarioEntity
        /\ gizmo_state = "translating_on_axis"
        /\ camera_uid # 0
        /\ ray.valid
        /\ get_projected_point_on_axis(ray, original_active_world_matrix, gizmo_orientation,
                                       focused_gizmo_axis_index, selected_entity_uid)
               = VAdd(local_axis_offset_point, <<2, 0, 0>>)

LeftButton(event, type) == event.type = type /\ event.button = MOUSE_LEFT

\* a left press at the pixel the mouse was last moved to
LeftPressAtMouse(event) ==
    LeftButton(event, "mouse_button_press") /\ event.data = mouse_screen_position

\* the scenario as the specification words it: entity_selected(E), an update,
\* the move over X, the left press where the mouse is, the move by 2, the left
\* release.  Frame updates between two steps do not end the scenario.
OriginalStep(step, event) ==
    IF step = 0 /\ event.type = "entity_selected" /\ event.data = ScenarioEntity THEN 1
    ELSE IF step = 1 /\ event.type = "update" THEN 2
    ELSE IF step >= 2 /\ event.type = "update" THEN step
    ELSE IF step = 2 /\ event.type = "mouse_move" /\ HitsOnlyAxisX(event.data) THEN 3
    ELSE IF step = 3 /\ LeftPressAtMouse(event) THEN 4
    ELSE IF step = 4 /\ event.type = "mouse_move" /\ ProjectsTwoFurtherAlongX(event.data) THEN 5
    ELSE IF step = 5 /\ LeftButton(event, "mouse_button_release") THEN 6
    ELSE -1

\* the same scenario with the left release that ends the selecting click
\* between entity_selected(E) and the update
AmendedStep(step, event) ==
    IF step = 0 /\ event.type = "entity_selected" /\ event.data = ScenarioEntity THEN 1
    ELSE IF step = 1 /\ event.type = "update" THEN 1
    ELSE IF step = 1 /\ LeftButton(event, "mouse_button_release") THEN 2
    ELSE IF step = 2 /\ event.type = "update" THEN 3
    ELSE IF step >= 3 /\ event.type = "update" THEN step
    ELSE IF step = 3 /\ event.type = "mouse_move" /\ HitsOnlyAxisX(event.data) THEN 4
    ELSE IF step = 4 /\ LeftPressAtMouse(event) THEN 5
    ELSE IF step = 5 /\ event.type = "mouse_move" /\ ProjectsTwoFurtherAlongX(event.data) THEN 6
    ELSE IF step = 6 /\ LeftButton(event, "mouse_button_release") THEN 7
    ELSE -1

ScenarioStep(event) ==
    [original |-> OriginalStep(scenario.original, event),
     amended |-> AmendedStep(scenario.amended, event)]

(***************************************************************************)
(* Gizmo3DSystem: initialise and event handling                            *)
(***************************************************************************)
Initialised == camera2gizmo_map # <<>>

\* variant of AlreadyMapped that never skips a camera
AlreadyMapped_never(camera_entity_id) == camera_entity_id \notin DOMAIN camera_pool

\* initialise(), stage 1: "if camera_entity_id in self.camera2gizmo_map: continue"
AlreadyMapped(camera_entity_id) == camera_entity_id \in DOMAIN camera2gizmo_map

\* scene.add_entity for the rig of a camera: a uid no rig of the scene has
add_entity(camera_entity_id) ==
    RigUid(camera_entity_id)
        + 10 * Cardinality({g \in DOMAIN gizmo_3d_pool : (g - RigUid(camera_entity_id)) % 10 = 0})

\* initialise(): a rig for every camera that has none, the axis entities of
\* every rig, all rigs hidden
initialise ==
    /\ raised = ""
    /\ LET cameras == {CameraPool[i] : i \in 1..Len(CameraPool)}
           created == {c \in cameras : ~AlreadyMapped(c)}
           map == [c \in cameras \cup DOMAIN camera2gizmo_map |->
                      IF c \in created THEN add_entity(c) ELSE camera2gizmo_map[c]]
           new_rigs == {map[c] : c \in created}
           new_axes == {AxisEntityUid(g, k) : g \in new_rigs, k \in 0..2}
           gizmos == [g \in DOMAIN gizmo_3d_pool \cup new_rigs |->
                         [axes_entities_uids |-> [k \in 1..3 |-> AxisEntityUid(g, k - 1)]]]
           meshes == [m \in DOMAIN mesh_pool \cup new_axes |->
                         IF m \in new_axes
                         THEN [visible |-> TRUE,
                               exclusive_to_camera_uid |-> CHOOSE c \in created :
                                                               \E k \in 0..2 : AxisEntityUid(map[c], k) = m]
                         ELSE mesh_pool[m]]
       IN  /\ camera2gizmo_map' = map
           /\ gizmo_3d_pool' = gizmos
           /\ mesh_pool' = set_all_gizmo_3d_visibility(map, gizmos, meshes, FALSE)
           /\ material_pool' = [m \in DOMAIN material_pool \cup new_axes |->
                                   IF m \in new_axes THEN [state_highlighted |-> FALSE]
                                   ELSE material_pool[m]]
           /\ transform_3d_pool' =
                  [u \in DOMAIN transform_3d_pool \cup new_rigs |->
                      IF u \in new_rigs THEN Transform3D(Zero3, Zero3, 1) ELSE transform_3d_pool[u]]
    /\ published' = <<>>
    /\ last_event' = Event("initialise", 0, <<>>)
    /\ UNCHANGED call
    /\ UNCHANGED scenario
    /\ gizmo_events' = EventsSeen(gizmo_events, published)
    /\ UNCHANGED events_in_frame
    /\ UNCHANGED <<selected_entity_uid, gizmo_state, gizmo_orientation, gizmo_selection_enabled,
                   focused_gizmo_axis_index, focused_gizmo_plane, focused_camera_uid,
                   mouse_screen_position, snapshot_vars,
                   drag_start_orientation, drag_start_entity, drags_started, raised>>

\* Editor.run: every system is initialised once, before the main loop
Editor_run_initialise == ~Initialised /\ initialise

\* every event is delivered between two frames, after initialise(), while no
\* exception has ended the run, at most MaxEventsPerFrame of them per frame
Delivered == Initialised /\ raised = "" /\ events_in_frame < MaxEventsPerFrame

handle_event_entity_selected(uid) ==
    /\ Delivered
    /\ selected_entity_uid' = uid
    /\ mesh_pool' = set_all_gizmo_3d_visibility(camera2gizmo_map, gizmo_3d_pool, mesh_pool, TRUE)
    /\ IF uid \notin DOMAIN transform_3d_pool
       THEN \* set_gizmo_to_selected_entity reads .position of the None that
            \* transform_3d_pool.get returned
            /\ raised' = "AttributeError"
            /\ UNCHANGED <<transform_3d_pool, focused_gizmo_plane, gizmo_state>>
       ELSE /\ transform_3d_pool' = set_gizmo_to_selected_entity(uid)
            /\ IF gizmo_state = "not_hovering"
               THEN /\ focused_gizmo_plane' = GIZMO_3D_PLANE_CAMERA
                    /\ gizmo_state' = "translating_on_plane"
               ELSE UNCHANGED <<focused_gizmo_plane, gizmo_state>>
            /\ UNCHANGED raised
    /\ published' = <<>>
    /\ last_event' = Event("entity_selected", 0, uid)
    /\ UNCHANGED call
    /\ scenario' = ScenarioStep(Event("entity_selected", 0, uid))
    /\ gizmo_events' = EventsSeen(gizmo_events, published)
    /\ events_in_frame' = events_in_frame + 1
    /\ UNCHANGED <<gizmo_orientation, gizmo_selection_enabled, focused_gizmo_axis_index,
                   focused_camera_uid, mouse_screen_position, snapshot_vars,
                   camera2gizmo_map, gizmo_3d_pool, material_pool,
                   drag_start_orientation, drag_start_entity, drags_started>>

handle_event_entity_deselected ==
    /\ Delivered
    /\ selected_entity_uid' = 0
    /\ mesh_pool' = set_all_gizmo_3d_visibility(camera2gizmo_map, gizmo_3d_pool, mesh_pool, FALSE)
    /\ published' = <<>>
    /\ last_event' = Event("entity_deselected", 0, <<>>)
    /\ UNCHANGED call
    /\ scenario' = ScenarioStep(Event("entity_deselected", 0, <<>>))
    /\ gizmo_events' = EventsSeen(gizmo_events, published)
    /\ events_in_frame' = events_in_frame + 1
    /\ UNCHANGED raised
    /\ UNCHANGED <<gizmo_state, gizmo_orientation, gizmo_selection_enabled,
                   focused_gizmo_axis_index, focused_gizmo_plane, focused_camera_uid,
                   mouse_screen_position, snapshot_vars,
                   camera2gizmo_map, transform_3d_pool, gizmo_3d_pool, material_pool,
                   drag_start_orientation, drag_start_entity, drags_started>>

handle_event_mouse_enter_ui ==
    /\ Delivered
    /\ gizmo_selection_enabled' = FALSE
    /\ published' = <<>>
    /\ last_event' = Event("mouse_enter_ui", 0, <<>>)
    /\ UNCHANGED call
    /\ scenario' = ScenarioStep(Event("mouse_enter_ui", 0, <<>>))
    /\ gizmo_events' = EventsSeen(gizmo_events, published)
    /\ events_in_frame' = events_in_frame + 1
    /\ UNCHANGED raised
    /\ UNCHANGED <<selected_entity_uid, gizmo_state, gizmo_orientation,
                   focused_gizmo_axis_index, focused_gizmo_plane, focused_camera_uid,
                   mouse_screen_position, snapshot_vars,
                   camera2gizmo_map, scene_vars, drag_start_orientation, drag_start_entity, drags_started>>

handle_event_mouse_leave_ui ==
    /\ Delivered
    /\ gizmo_selection_enabled' = TRUE
    /\ published' = <<>>
    /\ last_event' = Event("mouse_leave_ui", 0, <<>>)
    /\ UNCHANGED call
    /\ scenario' = ScenarioStep(Event("mouse_leave_ui", 0, <<>>))
    /\ gizmo_events' = EventsSeen(gizmo_events, published)
    /\ events_in_frame' = events_in_frame + 1
    /\ UNCHANGED raised
    /\ UNCHANGED <<selected_entity_uid, gizmo_state, gizmo_orientation,
                   focused_gizmo_axis_index, focused_gizmo_plane, focused_camera_uid,
                   mouse_screen_position, snapshot_vars,
                   camera2gizmo_map, scene_vars, drag_start_orientation, drag_start_entity, drags_started>>

handle_event_mouse_button_press(button, screen_gl_pixels) ==
    /\ Delivered
    /\ last_event' = Event("mouse_button_press", button, screen_gl_pixels)
    /\ UNCHANGED call
    /\ scenario' = ScenarioStep(Event("mouse_button_press", button, screen_gl_pixels))
    /\ gizmo_events' = EventsSeen(gizmo_events, published)
    /\ events_in_frame' = events_in_frame + 1
    /\ IF button # MOUSE_LEFT \/ selected_entity_uid = 0
       THEN /\ NoStateHandler
            /\ UNCHANGED focused_camera_uid
       ELSE ScreenToRayAndDispatch(screen_gl_pixels, mouse_screen_position, TRUE)
    /\ UNCHANGED <<selected_entity_uid, gizmo_orientation, gizmo_selection_enabled,
                   focused_gizmo_plane, mouse_screen_position, camera2gizmo_map,
                   gizmo_3d_pool, mesh_pool, material_pool>>

handle_event_mouse_move(event_data) ==
    /\ Delivered
    /\ last_event' = Event("mouse_move", 0, event_data)
    /\ UNCHANGED call
    /\ scenario' = ScenarioStep(Event("mouse_move", 0, event_data))
    /\ gizmo_events' = EventsSeen(gizmo_events, published)
    /\ events_in_frame' = events_in_frame + 1
    /\ mouse_screen_position' = event_data
    /\ IF selected_entity_uid = 0
       THEN /\ NoStateHandler
            /\ UNCHANGED focused_camera_uid
       ELSE ScreenToRayAndDispatch(event_data, event_data, FALSE)
    /\ UNCHANGED <<selected_entity_uid, gizmo_orientation, gizmo_selection_enabled,
                   focused_gizmo_plane, camera2gizmo_map,
                   gizmo_3d_pool, mesh_pool, material_pool>>

handle_event_parameter_updated(name, value) ==
    /\ Delivered
    /\ IF name = "orientation"
       THEN gizmo_orientation' = value
       ELSE UNCHANGED gizmo_orientation
    /\ published' = <<>>
    /\ last_event' = Event("parameter_updated", 0, <<name, value>>)
    /\ UNCHANGED call
    /\ scenario' = ScenarioStep(Event("parameter_updated", 0, <<name, value>>))
    /\ gizmo_events' = EventsSeen(gizmo_events, published)
    /\ events_in_frame' = events_in_frame + 1
    /\ UNCHANGED raised
    /\ UNCHANGED <<selected_entity_uid, gizmo_state, gizmo_selection_enabled,
                   focused_gizmo_axis_index, focused_gizmo_plane, focused_camera_uid,
                   mouse_screen_position, snapshot_vars,
                   camera2gizmo_map, scene_vars, drag_start_orientation, drag_start_entity, drags_started>>

\* variant of handle_event_mouse_button_release that publishes the leave
\* event only
handle_event_mouse_button_release_leave_only(button) ==
    /\ Delivered
    /\ IF button # MOUSE_LEFT
       THEN /\ published' = <<>>
            /\ UNCHANGED <<gizmo_state, drag_start_orientation, drag_start_entity, drags_started>>
       ELSE /\ gizmo_state' = "not_hovering"
            /\ published' = <<GizmoEvent("mouse_leave_gizmo_3d", 0)>>
            /\ drag_start_orientation' = ""
            /\ drag_start_entity' = 0
            /\ UNCHANGED drags_started
    /\ last_event' = Event("mouse_button_release", button, <<>>)
    /\ UNCHANGED call
    /\ scenario' = ScenarioStep(Event("mouse_button_release", button, <<>>))
    /\ gizmo_events' = EventsSeen(gizmo_events, published)
    /\ events_in_frame' = events_in_frame + 1
    /\ UNCHANGED raised
    /\ UNCHANGED <<selected_entity_uid, gizmo_orientation, gizmo_selection_enabled,
                   focused_gizmo_axis_index, focused_gizmo_plane, focused_camera_uid,
                   mouse_screen_position, snapshot_vars,
                   camera2gizmo_map, scene_vars>>

handle_event_mouse_button_release(button) ==
    /\ Delivered
    /\ IF button # MOUSE_LEFT
       THEN /\ published' = <<>>
            /\ UNCHANGED <<gizmo_state, drag_start_orientation, drag_start_entity, drags_started>>
       ELSE /\ gizmo_state' = "not_hovering"
            /\ published' = <<GizmoEvent("mouse_leave_gizmo_3d", 0),
                              GizmoEvent("mouse_gizmo_3d_deactivated", 0)>>
            /\ drag_start_orientation' = ""
            /\ drag_start_entity' = 0
            /\ UNCHANGED drags_started
    /\ last_event' = Event("mouse_button_release", button, <<>>)
    /\ UNCHANGED call
    /\ scenario' = ScenarioStep(Event("mouse_button_release", button, <<>>))
    /\ gizmo_events' = EventsSeen(gizmo_events, published)
    /\ events_in_frame' = events_in_frame + 1
    /\ UNCHANGED raised
    /\ UNCHANGED <<selected_entity_uid, gizmo_orientation, gizmo_selection_enabled,
                   focused_gizmo_axis_index, focused_gizmo_plane, focused_camera_uid,
                   mouse_screen_position, snapshot_vars,
                   camera2gizmo_map, scene_vars>>

(***************************************************************************)
(* Per-frame update: the editor runs Gizmo3DSystem.update and then         *)
(* TransformSystem.update (DEFAULT_SYSTEMS order) before the next event    *)
(***************************************************************************)
\* the scale update() gives the rig of a camera
GizmoScale(camera_uid) ==
    LET selected_world_position == Translation(transform_3d_pool[selected_entity_uid].world_matrix)
        view_matrix == fast_inverse(transform_3d_pool[camera_uid].world_matrix)
        viewport_height == camera_pool[camera_uid].viewport_pixels[4]
    IN  (set_gizmo_scale(view_matrix, selected_world_position) * GIZMO_3D_VIEWPORT_SCALE_COEFFICIENT)
            \div viewport_height

\* axes_entities_uids[index] with Python's indexing: -1 is the last element
PyIndex3(index) == IF index < 0 THEN index + 4 ELSE index + 1

\* dehighlight_gizmo followed by highlight_active_gizmo_part for one rig: the
\* state_highlighted flag of the rig's axis entity m afterwards
HighlightAfterUpdate(gizmo_uid, m) ==
    /\ gizmo_state # "not_hovering"
    /\ gizmo_3d_pool[gizmo_uid].axes_entities_uids[PyIndex3(focused_gizmo_axis_index)] = m

\* variant of GizmoUpdateTransforms that copies the rotation whatever the
\* orientation is
GizmoUpdateTransforms_rotation_copied ==
    IF selected_entity_uid = 0 THEN transform_3d_pool
    ELSE LET selected_transform_component == transform_3d_pool[selected_entity_uid]
             rigs == {camera2gizmo_map[CameraPool[i]] : i \in 1..Len(CameraPool)}
             CameraOf(g) == CHOOSE c \in DOMAIN camera2gizmo_map : camera2gizmo_map[c] = g
         IN  [u \in DOMAIN transform_3d_pool |->
                 IF u \in rigs
                 THEN [transform_3d_pool[u] EXCEPT
                          !.scale = GizmoScale(CameraOf(u)),
                          !.input_values_updated = TRUE,
                          !.position = selected_transform_component.position,
                          !.rotation = selected_transform_component.rotation]
                 ELSE transform_3d_pool[u]]

\* Gizmo3DSystem.update: the transform pool it leaves
GizmoUpdateTransforms ==
    IF selected_entity_uid = 0 THEN transform_3d_pool
    ELSE LET selected_transform_component == transform_3d_pool[selected_entity_uid]
             rigs == {camera2gizmo_map[CameraPool[i]] : i \in 1..Len(CameraPool)}
             CameraOf(g) == CHOOSE c \in DOMAIN camera2gizmo_map : camera2gizmo_map[c] = g
         IN  [u \in DOMAIN transform_3d_pool |->
                 IF u \in rigs
                 THEN [transform_3d_pool[u] EXCEPT
                          !.scale = GizmoScale(CameraOf(u)),
                          !.input_values_updated = TRUE,
                          !.position = selected_transform_component.position,
                          !.rotation = IF gizmo_orientation = "global" THEN Zero3
                                       ELSE selected_transform_component.rotation]
                 ELSE transform_3d_pool[u]]

\* Gizmo3DSystem.update: the material pool it leaves
GizmoUpdateMaterials ==
    IF selected_entity_uid # 0 /\ gizmo_state \in {"not_hovering", "hovering_axis"}
    THEN LET rigs == {camera2gizmo_map[CameraPool[i]] : i \in 1..Len(CameraPool)}
         IN  [m \in DOMAIN material_pool |->
                 [state_highlighted |-> \E g \in rigs : HighlightAfterUpdate(g, m)]]
    ELSE material_pool

\* mat4.to_euler_xyz: the angles, in quarter turns, of the rotation a
\* transform matrix carries; of the angle triples that give the same rotation
\* the first in the order x, y, z is returned
EulerAngles == {<<x, y, z>> : x, y, z \in 0..3}

SameRotation(m, rotation) ==
    LET r == create_transform_euler_xyz(Zero3, rotation, 1)
    IN  \A i \in 1..3 : r[i] = m[i]

EulerBefore(a, b) ==
    \/ a[1] < b[1]
    \/ a[1] = b[1] /\ a[2] < b[2]
    \/ a[1] = b[1] /\ a[2] = b[2] /\ a[3] <= b[3]

to_euler_xyz(m) ==
    IF \E r \in EulerAngles : SameRotation(m, r)
    THEN CHOOSE r \in EulerAngles :
             /\ SameRotation(m, r)
             /\ \A o \in EulerAngles : SameRotation(m, o) => EulerBefore(r, o)
    ELSE Zero3

\* variant of Transform3D.update in which pending input values win over a
\* pending local matrix
Transform3D_update_inputs_first(t) ==
    IF t.input_values_updated
    THEN [t EXCEPT !.local_matrix = create_transform_euler_xyz(t.position, t.rotation, t.scale),
                   !.local_matrix_updated = FALSE,
                   !.input_values_updated = FALSE]
    ELSE IF t.local_matrix_updated
    THEN [t EXCEPT !.position = Translation(t.local_matrix),
                   !.rotation = to_euler_xyz(t.local_matrix),
                   !.local_matrix_updated = FALSE]
    ELSE t

\* Transform3D.update
Transform3D_update(t) ==
    IF t.local_matrix_updated
    THEN [t EXCEPT !.position = Translation(t.local_matrix),
                   !.rotation = to_euler_xyz(t.local_matrix),
                   !.local_matrix_updated = FALSE,
                   !.input_values_updated = FALSE]
    ELSE IF t.input_values_updated
    THEN [t EXCEPT !.local_matrix = create_transform_euler_xyz(t.position, t.rotation, t.scale),
                   !.input_values_updated = FALSE]
    ELSE t

\* the loop of TransformSystem.update over entity_uid_update_order[index..]
RECURSIVE TransformSystem_update(_, _)
TransformSystem_update(index, pool) ==
    IF index > Len(entity_uid_update_order) THEN pool
    ELSE LET entity_uid == entity_uid_update_order[index]
             transform == Transform3D_update(pool[entity_uid])
             world_matrix == IF parent_uid(entity_uid) # 0
                             THEN MatMul(pool[parent_uid(entity_uid)].world_matrix,
                                         transform.local_matrix)
                             ELSE transform.local_matrix
         IN  IF entity_uid \notin DOMAIN pool
             THEN TransformSystem_update(index + 1, pool)
             ELSE TransformSystem_update(index + 1,
                      [pool EXCEPT ![entity_uid] = [transform EXCEPT !.world_matrix = world_matrix]])

update ==
    /\ Initialised
    /\ raised = ""
    /\ IF selected_entity_uid # 0 /\ selected_entity_uid \notin DOMAIN transform_3d_pool
       THEN \* Gizmo3DSystem.update: transform_3d_pool[self.selected_entity_uid] raises
            /\ raised' = "KeyError"
            /\ UNCHANGED <<transform_3d_pool, material_pool>>
       ELSE /\ transform_3d_pool' = TransformSystem_update(1, GizmoUpdateTransforms)
            /\ material_pool' = GizmoUpdateMaterials
            /\ UNCHANGED raised
    /\ published' = <<>>
    /\ last_event' = Event("update", 0, <<>>)
    /\ UNCHANGED call
    /\ scenario' = ScenarioStep(Event("update", 0, <<>>))
    /\ gizmo_events' = EventsSeen(gizmo_events, published)
    /\ events_in_frame' = 0
    /\ UNCHANGED <<gizmo_vars, gizmo_3d_pool, mesh_pool, drag_start_orientation, drag_start_entity, drags_started>>

(***************************************************************************)
(* Specification                                                           *)
(***************************************************************************)
Next ==
    \/ Editor_run_initialise
    \/ \E uid \in DragEntities : handle_event_entity_selected(uid)
    \/ handle_event_entity_deselected
    \/ handle_event_mouse_enter_ui
    \/ handle_event_mouse_leave_ui
    \/ \E button \in {MOUSE_LEFT, MOUSE_RIGHT} : \E pixel \in DragPixels :
           handle_event_mouse_button_press(button, pixel)
    \/ \E pixel \in DragPixels : handle_event_mouse_move(pixel)
    \/ \E button \in {MOUSE_LEFT, MOUSE_RIGHT} : handle_event_mouse_button_release(button)
    \/ \E name \in {"orientation", "mode"} : \E value \in {"global", "local"} :
           handle_event_parameter_updated(name, value)
    \/ update

Spec == Init /\ [][Next]_vars

\* the keys of self.state_handlers
GIZMO_3D_STATES ==
    {"not_hovering", "hovering_axis", "hovering_plane", "translating_on_axis",
     "translating_on_plane", "rotate_around_axis"}

\* the system as constructed, in a state of the handler table that needs no
\* drag snapshot and no focused axis: the states no handler assigns
\* (hovering-plane, rotate-around-axis) are entered here, the others are
\* reached by the events
TotalityInit ==
    /\ selected_entity_uid = 0
    /\ gizmo_state \in {"not_hovering", "hovering_plane", "rotate_around_axis"}
    /\ gizmo_orientation = "global"
    /\ gizmo_selection_enabled = TRUE
    /\ focused_gizmo_axis_index = -1
    /\ focused_gizmo_plane = -1
    /\ focused_camera_uid = 0
    /\ mouse_screen_position = <<-1, -1>>
    /\ original_active_local_position = <<>>
    /\ original_active_world_matrix = <<>>
    /\ original_active_local_matrix = <<>>
    /\ local_axis_offset_point = Zero3
    /\ camera2gizmo_map = <<>>
    /\ transform_3d_pool = SceneTransforms
    /\ gizmo_3d_pool = <<>>
    /\ mesh_pool = <<>>
    /\ material_pool = <<>>
    /\ published = <<>>
    /\ last_event = Event("init", 0, <<>>)
    /\ drag_start_orientation = ""
    /\ drag_start_entity = 0
    /\ drags_started = 0
    /\ events_in_frame = 0
    /\ raised = ""
    /\ scenario = [original |-> 0, amended |-> 0]
    /\ gizmo_events = NoGizmoEvents
    /\ call = NoCall

TotalitySpec == TotalityInit /\ [][Next]_vars

\* the same system with the mouse over any pixel of the window, the pixel
\* shared by the two viewports included
ViewportNext ==
    \/ Editor_run_initialise
    \/ \E uid \in DragEntities : handle_event_entity_selected(uid)
    \/ handle_event_entity_deselected
    \/ handle_event_mouse_enter_ui
    \/ handle_event_mouse_leave_ui
    \/ \E button \in {MOUSE_LEFT, MOUSE_RIGHT} : \E pixel \in Pixels :
           handle_event_mouse_button_press(button, pixel)
    \/ \E pixel \in Pixels : handle_event_mouse_move(pixel)
    \/ \E button \in {MOUSE_LEFT, MOUSE_RIGHT} : handle_event_mouse_button_release(button)
    \/ \E name \in {"orientation", "mode"} : \E value \in {"global", "local"} :
           handle_event_parameter_updated(name, value)
    \/ update

ViewportSpec == Init /\ [][ViewportNext]_vars

\* ComponentPool.remove_component for the transform component of an entity:
\* another system deletes the component while the gizmo is in use
remove_component(entity_uid) ==
    /\ Delivered
    /\ entity_uid \in DOMAIN transform_3d_pool
    /\ transform_3d_pool' =
           [u \in DOMAIN transform_3d_pool \ {entity_uid} |-> transform_3d_pool[u]]
    /\ published' = <<>>
    /\ last_event' = Event("remove_component", 0, entity_uid)
    /\ UNCHANGED call
    /\ scenario' = ScenarioStep(Event("remove_component", 0, entity_uid))
    /\ gizmo_events' = EventsSeen(gizmo_events, published)
    /\ events_in_frame' = events_in_frame + 1
    /\ UNCHANGED <<gizmo_vars, gizmo_3d_pool, mesh_pool, material_pool,
                   drag_start_orientation, drag_start_entity, drags_started, raised>>

\* the same system in a scene whose entities can lose their transform
MissingEntityNext ==
    \/ Next
    \/ \E uid \in DragEntities : remove_component(uid)

MissingEntitySpec == Init /\ [][MissingEntityNext]_vars

\* initialise() called again on a system that is already initialised
initialise_again == Initialised /\ initialise

\* the same system whose initialise() may run more than once
ReinitialiseNext ==
    \/ Next
    \/ initialise_again

ReinitialiseSpec == Init /\ [][ReinitialiseNext]_vars

\* the events of Next, and the selection of the other selectable entity
ReselectNext ==
    \/ Next
    \/ \E uid \in SelectableEntities \ DragEntities : handle_event_entity_selected(uid)

ReselectSpec == Init /\ [][ReselectNext]_vars

\* MaxDrags caps the drags of one window of a behaviour; a new window opens
\* once the drag is over. Only the count of the drags changes.
next_drag_window ==
    /\ gizmo_state = "not_hovering"
    /\ drags_started = MaxDrags
    /\ drags_started' = 0
    /\ UNCHANGED <<gizmo_vars, scene_vars, published, last_event, drag_start_orientation,
                   drag_start_entity, events_in_frame, raised, scenario, gizmo_events, call>>

\* the events of Next, with any number of drags one after the other
RepeatedDragNext ==
    \/ Next
    \/ next_drag_window

RepeatedDragSpec == Init /\ [][RepeatedDragNext]_vars

(***************************************************************************)
(* The library functions, called on their own                              *)
(***************************************************************************)
\* points of the plane z = 0 and the directions of the unit cube
PlanePoints == {<<x, y, 0>> : x, y \in (-MaxPoint)..MaxPoint}

Directions == {<<x, y, z>> : x, y, z \in -1..1} \ {Zero3}

Call(fn, args) == [fn |-> fn, params |-> args, result |-> <<>>, returned |-> FALSE]

\* distance2_ray_segment(ray_origin, ray_direction, p0, p1) for a ray from the
\* origin
Calls_distance2_ray_segment(points) ==
    {Call("distance2_ray_segment", <<Zero3, d, p0, p1>>) :
        d \in Directions, p0 \in points, p1 \in points}

\* mouse_ray_check_axes_collision for a ray and a rig at the origin that is
\* turned by args[3] quarter turns about z and scaled by args[4]
Calls_mouse_ray_check_axes_collision(points) ==
    {Call("mouse_ray_check_axes_collision", <<o, d, k, scale>>) :
        o \in points, d \in Directions, k \in 0..1, scale \in 1..2}

\* screen_gl_position_pixels2viewport_position(position_pixels,
\* viewport_pixels) for small rectangles and the pixels around them, and for
\* the 800 x 600 window
WindowRect == <<0, 0, 800, 600>>

WindowPixels == {<<400, 300>>, <<0, 0>>, <<800, 600>>, <<900, 300>>, <<800, 601>>, <<-1, 0>>}

Calls_screen_gl_position_pixels2viewport_position(size) ==
    {Call("screen_gl_position_pixels2viewport_position", <<<<px, py>>, <<x, y, w, h>>>>) :
        px \in -1..(size + 2), py \in -1..(size + 2),
        x \in 0..1, y \in 0..1, w \in 1..size, h \in 1..size}
    \cup {Call("screen_gl_position_pixels2viewport_position", <<p, WindowRect>>) : p \in WindowPixels}

\* set_gizmo_scale(view_matrix, object_position) and the scaling by the
\* viewport height that follows it in update(), for a camera on the z axis
\* that looks down the axis and an object in the plane y = 0
ViewMatrices ==
    {fast_inverse(create_transform_euler_xyz(<<0, 0, z>>, Zero3, 1)) : z \in 0..MaxPoint}

ObjectPositions == {<<x, 0, z>> : x, z \in (-MaxPoint)..MaxPoint}

ViewportHeights == {2, 4}

Calls_set_gizmo_scale ==
    {Call("set_gizmo_scale", <<m, o, h>>) :
        m \in ViewMatrices, o \in ObjectPositions, h \in ViewportHeights}

\* intersect_ray_plane(ray_origin, ray_direction, plane_normal, plane_offset)
\* and intersect_ray_plane_boolean on the same arguments
PlaneNormals == {<<1, 0, 0>>, <<0, 1, 0>>, <<0, 0, 1>>, <<1, 1, 0>>}

PlaneOffsets == -1..1

Calls_intersect_ray_plane(points) ==
    {Call("intersect_ray_plane", <<o, d, n, k>>) :
        o \in points, d \in Directions, n \in PlaneNormals, k \in PlaneOffsets}

\* Transform3D.update() on a component whose input values and local matrix
\* are in any combination of fresh and stale
LocalMatrices ==
    {Eye4,
     create_transform_euler_xyz(<<0, 2, 0>>, <<0, 0, 2>>, 1),
     create_transform_euler_xyz(<<1, 0, 0>>, <<1, 0, 0>>, 1)}

Calls_Transform3D_update ==
    {Call("Transform3D_update",
          <<[Transform3D(position, rotation, scale) EXCEPT
                 !.local_matrix = m, !.input_values_updated = a, !.local_matrix_updated = b]>>) :
        position \in {Zero3, <<1, 0, 0>>}, rotation \in {Zero3, <<0, 0, 1>>}, scale \in 1..2,
        m \in LocalMatrices, a \in BOOLEAN, b \in BOOLEAN}

\* ---- EventPublisher and the listeners' on_event ----

\* the systems that listen, and the event types they exchange
RENDER_SYSTEM == "render_system"

GIZMO_3D_SYSTEM == "gizmo_3d_system"

EventTypes ==
    <<"mouse_button_press", "mouse_button_release", "mouse_move",
      "entity_selected", "entity_deselected",
      "mouse_enter_gizmo_3d", "mouse_leave_gizmo_3d",
      "mouse_gizmo_3d_activated", "mouse_gizmo_3d_deactivated">>

\* constants.COMPONENT_POOL_STARTING_ID_COUNTER: smaller ids are no entity
COMPONENT_POOL_STARTING_ID_COUNTER == 2

\* EventPublisher.__init__: no listener for any event type
NoListeners == [t \in {EventTypes[k] : k \in 1..Len(EventTypes)} |-> <<>>]

\* a variant of subscribe that puts the new listener first
subscribe_front(listeners, event_type, listener) ==
    [listeners EXCEPT ![event_type] = <<listener>> \o @]

\* EventPublisher.subscribe: the listener is appended to the list of the type
subscribe(listeners, event_type, listener) ==
    [listeners EXCEPT ![event_type] = Append(@, listener)]

RECURSIVE SubscribeTypes(_, _, _)
\* one system subscribing to the event types from the k-th on
SubscribeTypes(listeners, listener, k) ==
    IF k > Len(EventTypes) THEN listeners
    ELSE SubscribeTypes(subscribe(listeners, EventTypes[k], listener), listener, k + 1)

RECURSIVE SubscribeSystems(_, _, _)
\* the systems of order subscribing one after the other, from the i-th on
SubscribeSystems(listeners, order, i) ==
    IF i > Len(order) THEN listeners
    ELSE SubscribeSystems(SubscribeTypes(listeners, order[i], 1), order, i + 1)

\* the parameters of a publish call: the order the systems subscribed in, the
\* event type, the mouse button, the entity id under the pixel, the render
\* system's entity_selection_enabled, the gizmo's gizmo_state and whether the
\* mouse ray hits an axis
PublishParams(order, event_type, button, picked, enabled, state, hit) ==
    [order |-> order, event_type |-> event_type, button |-> button, picked |-> picked,
     entity_selection_enabled |-> enabled, gizmo_state |-> state, hit |-> hit]

\* RenderSystem.on_event: the events it publishes while handling event_type
\* (process_entity_selection on a mouse press, nothing otherwise)
RenderSystemPublishes(event_type, p) ==
    IF event_type = "mouse_button_press" /\ p.entity_selection_enabled /\ p.button = MOUSE_LEFT
    THEN IF p.picked < COMPONENT_POOL_STARTING_ID_COUNTER
         THEN <<"entity_deselected">>
         ELSE <<"entity_selected">>
    ELSE <<>>

\* Gizmo3DSystem's handlers, with an entity selected, a camera under the mouse
\* and gizmo_selection_enabled: the events they publish while handling
\* event_type
Gizmo3DSystemPublishes(event_type, p) ==
    IF event_type = "mouse_button_release" /\ p.button = MOUSE_LEFT
    THEN <<"mouse_leave_gizmo_3d", "mouse_gizmo_3d_deactivated">>
    ELSE IF \/ event_type = "mouse_move"
            \/ event_type = "mouse_button_press" /\ p.button = MOUSE_LEFT
    THEN IF p.gizmo_state = "not_hovering" /\ p.hit THEN <<"mouse_enter_gizmo_3d">>
         ELSE IF p.gizmo_state = "hovering_axis" /\ event_type = "mouse_button_press"
         THEN <<"mouse_gizmo_3d_activated">>
         ELSE IF p.gizmo_state = "hovering_axis" /\ ~p.hit THEN <<"mouse_leave_gizmo_3d">>
         ELSE <<>>
    ELSE <<>>

Publishes(listener, event_type, p) ==
    IF listener = RENDER_SYSTEM THEN RenderSystemPublishes(event_type, p)
    ELSE Gizmo3DSystemPublishes(event_type, p)

\* one step of a delivery: a listener's on_event is entered or left, depth
\* counting the publish calls it is nested in
DeliveryStep(step, listener, event_type, depth) ==
    [step |-> step, listener |-> listener, event_type |-> event_type, depth |-> depth]

RECURSIVE publish_from(_, _, _, _, _)
RECURSIVE handler_from(_, _, _, _, _)

\* System.on_event / RenderSystem.on_event: the handler runs, and every
\* publish call it makes runs inside it
on_event(listeners, listener, event_type, p, depth) ==
    <<DeliveryStep("enter", listener, event_type, depth)>>
    \o handler_from(listeners, Publishes(listener, event_type, p), p, depth, 1)
    \o <<DeliveryStep("exit", listener, event_type, depth)>>

\* the publish calls of a handler, from the k-th on
handler_from(listeners, events, p, depth, k) ==
    IF k > Len(events) THEN <<>>
    ELSE publish_from(listeners, events[k], p, depth + 1, 1)
         \o handler_from(listeners, events, p, depth, k + 1)

\* the loop of EventPublisher.publish, from the i-th listener on
publish_from(listeners, event_type, p, depth, i) ==
    IF i > Len(listeners[event_type]) THEN <<>>
    ELSE on_event(listeners, listeners[event_type][i], event_type, p, depth)
         \o publish_from(listeners, event_type, p, depth, i + 1)

\* EventPublisher.publish, called from outside every handler: the steps taken
\* until it returns
publish(listeners, event_type, p) == publish_from(listeners, event_type, p, 0, 1)

\* constants.DEFAULT_SYSTEMS: the order the systems are created in, for the two
\* systems that handle and publish the events above
DEFAULT_SYSTEMS == <<GIZMO_3D_SYSTEM, RENDER_SYSTEM>>

\* constants.SYSTEMS_EVENT_SUBSCRITONS: the event types of the tables
\* SUBSCRIBED_EVENTS_RENDER_SYSTEM and SUBSCRIBED_EVENTS_GIZMO_3D_SYSTEM that
\* are among EventTypes, in the order of the tables
SYSTEMS_EVENT_SUBSCRITONS(system) ==
    IF system = RENDER_SYSTEM
    THEN <<"entity_selected", "mouse_leave_gizmo_3d", "mouse_button_press">>
    ELSE <<"mouse_move", "entity_selected", "entity_deselected">>

RECURSIVE SubscribeDefaults(_, _, _)
\* every system of DEFAULT_SYSTEMS subscribes to the event types of its table:
\* the k-th type of the i-th system and all that follow
SubscribeDefaults(listeners, i, k) ==
    IF i > Len(DEFAULT_SYSTEMS) THEN listeners
    ELSE IF k > Len(SYSTEMS_EVENT_SUBSCRITONS(DEFAULT_SYSTEMS[i]))
    THEN SubscribeDefaults(listeners, i + 1, 1)
    ELSE SubscribeDefaults(subscribe(listeners, SYSTEMS_EVENT_SUBSCRITONS(DEFAULT_SYSTEMS[i])[k],
                                     DEFAULT_SYSTEMS[i]),
                           i, k + 1)

SubscriptionOrders ==
    {<<RENDER_SYSTEM, GIZMO_3D_SYSTEM>>, <<GIZMO_3D_SYSTEM, RENDER_SYSTEM>>,
     <<RENDER_SYSTEM>>, <<GIZMO_3D_SYSTEM>>}

Calls_publish ==
    {Call("publish", <<PublishParams(order, EventTypes[k], button, picked, enabled, state, hit)>>) :
        order \in SubscriptionOrders, k \in 1..3, button \in {MOUSE_LEFT, MOUSE_RIGHT},
        picked \in {0, 4}, enabled \in BOOLEAN,
        state \in {"not_hovering", "hovering_axis", "translate_on_axis"}, hit \in BOOLEAN}

\* RenderSystem.on_event: entity_selection_enabled after the event
RenderSystem_on_event(entity_selection_enabled, event_type) ==
    IF event_type \in {"mouse_enter_ui", "mouse_hover_gizmo_3d"} THEN FALSE
    ELSE IF event_type \in {"mouse_leave_ui", "mouse_leave_gizmo_3d"} THEN TRUE
    ELSE entity_selection_enabled

RECURSIVE RenderSystem_on_events(_, _, _)
\* the render system handling the events of a sequence from the k-th on
RenderSystem_on_events(entity_selection_enabled, events, k) ==
    IF k > Len(events) THEN entity_selection_enabled
    ELSE RenderSystem_on_events(RenderSystem_on_event(entity_selection_enabled, events[k]),
                                events, k + 1)

\* what reaches the render system when the event is published: the event, or
\* for a left release the events the gizmo publishes while handling it
ReachesRenderSystem(event_type) ==
    IF event_type = "mouse_button_release"
    THEN Gizmo3DSystemPublishes(event_type, [button |-> MOUSE_LEFT])
    ELSE <<event_type>>

RECURSIVE EntitySelectionEnabledAfter(_, _, _)
\* entity_selection_enabled after the pointer events of a sequence
EntitySelectionEnabledAfter(entity_selection_enabled, events, k) ==
    IF k > Len(events) THEN entity_selection_enabled
    ELSE EntitySelectionEnabledAfter(
             RenderSystem_on_events(entity_selection_enabled, ReachesRenderSystem(events[k]), 1),
             events, k + 1)

\* the events that move the pointer over and off the UI and the gizmo, and
\* the left release
PointerEvents ==
    {"mouse_enter_ui", "mouse_leave_ui", "mouse_hover_gizmo_3d", "mouse_enter_gizmo_3d",
     "mouse_leave_gizmo_3d", "mouse_button_release"}

Calls_RenderSystem_on_event ==
    {Call("RenderSystem_on_event", <<events>>) :
        events \in UNION {[1..n -> PointerEvents] : n \in 1..3}}

(***************************************************************************)
(* Transform system (src/src/systems/transform_system/transform_system.py) *)
(* scene.entities is the sequence of <<entity_uid, parent_uid>> in the      *)
(* order the entities were inserted, parent_uid -1 for None.  A transform   *)
(* is a translation along one axis, so a matrix is its offset and the       *)
(* product of two matrices is the sum of the offsets.                       *)
(***************************************************************************)
RECURSIVE SortLoop(_, _, _)
\* the loop of update_transform_tree over the rows of order_array, from index on
SortLoop(order_array, uid2index, index) ==
    IF index > Len(order_array) THEN order_array
    ELSE IF order_array[index][2] = -1
    THEN SortLoop(order_array, uid2index, index + 1)
    ELSE IF uid2index[order_array[index][2]] > index
    THEN SortLoop([order_array EXCEPT ![index] = order_array[uid2index[order_array[index][2]]],
                                      ![uid2index[order_array[index][2]]] = order_array[index]],
                  [uid2index EXCEPT ![order_array[index][1]] = uid2index[order_array[index][2]],
                                    ![order_array[index][2]] = index],
                  index + 1)
    ELSE SortLoop(order_array, uid2index, index + 1)

\* TransformSystem.update_transform_tree: the new update_order
update_transform_tree(entities) ==
    LET uid2index   == [uid \in {entities[k][1] : k \in 1..Len(entities)} |->
                           CHOOSE k \in 1..Len(entities) : entities[k][1] = uid]
        order_array == SortLoop(entities, uid2index, 1)
    IN  [k \in 1..Len(entities) |-> order_array[k][1]]

\* entity.parent_uid in scene.entities
ParentUid(entities, entity_uid) ==
    entities[CHOOSE k \in 1..Len(entities) : entities[k][1] = entity_uid][2]

RECURSIVE UpdateWorldMatrices(_, _, _, _)
\* the loop of TransformSystem.update over entity_uid_update_order, from the
\* k-th on: the local matrix of an entity is the translation by its uid
UpdateWorldMatrices(world_matrix, update_order, entities, k) ==
    IF k > Len(update_order) THEN world_matrix
    ELSE UpdateWorldMatrices(
             [world_matrix EXCEPT ![update_order[k]] =
                 IF ParentUid(entities, update_order[k]) # -1
                 THEN world_matrix[ParentUid(entities, update_order[k])]
                      + update_order[k]
                 ELSE update_order[k]],
             update_order, entities, k + 1)

\* TransformSystem.update on a scene whose tree changed and whose world
\* matrices are still the identity
update_changed_tree(entities) ==
    LET update_order == update_transform_tree(entities)
    IN  [entity_uid_update_order |-> update_order,
         world_matrix |-> UpdateWorldMatrices([uid \in {entities[k][1] : k \in 1..Len(entities)} |-> 0],
                                              update_order, entities, 1)]

RECURSIVE ReachesRoot(_, _, _)
\* following the parents of uid for at most k steps ends at an entity without parent
ReachesRoot(parent, uid, k) ==
    IF parent[uid] = -1 THEN TRUE
    ELSE IF k = 0 THEN FALSE
    ELSE ReachesRoot(parent, parent[uid], k - 1)

\* the parent-child forests on n entities in every insertion order
Calls_update_transform_tree(n) ==
    {Call("update_transform_tree", <<[k \in 1..n |-> <<insertion[k], parent[insertion[k]]>>]>>) :
        insertion \in {f \in [1..n -> 1..n] : \A i, j \in 1..n : f[i] = f[j] => i = j},
        parent \in {f \in [1..n -> {-1} \cup 1..n] : \A uid \in 1..n : ReachesRoot(f, uid, n)}}

\* Transform3D.set_position
set_position(t, position) ==
    [t EXCEPT !.position = position, !.input_values_updated = TRUE]

\* Transform3D.set_rotation: the parameter is named position and is stored in
\* self.position
set_rotation(t, position) ==
    [t EXCEPT !.position = position, !.input_values_updated = TRUE]

\* set_position and set_rotation on components that are clean or dirty, with a
\* new value that differs from both stored vectors or equals one of them
Calls_Transform3D_set(fn) ==
    {Call(fn, <<[Transform3D(position, rotation, scale) EXCEPT !.input_values_updated = a], v>>) :
        position \in {Zero3, <<1, 0, 0>>}, rotation \in {Zero3, <<0, 0, 1>>}, scale \in 1..2,
        a \in BOOLEAN, v \in {Zero3, <<1, 0, 0>>, <<0, 0, 1>>, <<0, 2, 0>>}}

\* the unit ray directions along the axes
UnitDirections ==
    {<<1, 0, 0>>, <<-1, 0, 0>>, <<0, 1, 0>>, <<0, -1, 0>>, <<0, 0, 1>>, <<0, 0, -1>>}

\* intersect_ray_sphere(ray_origin, ray_direction, sphere_origin, sphere_radius)
\* for a ray from the origin along an axis and spheres around it, some of them
\* containing the ray origin
Calls_intersect_ray_sphere(size) ==
    {Call("intersect_ray_sphere", <<Zero3, d, <<x, y, z>>, r>>) :
        d \in UnitDirections, x \in (-size)..size, y \in (-size)..size, z \in -1..1,
        r \in 1..size}

\* Camera.is_inside_viewport(coord_pixels) for small viewports, some of them
\* with an origin that is not (0, 0), and the pixels around them
Calls_is_inside_viewport(size) ==
    {Call("is_inside_viewport", <<<<px, py>>, <<x, y, w, h>>>>) :
        px \in -1..(size + 2), py \in -1..(size + 2),
        x \in 0..1, y \in 0..1, w \in 1..size, h \in 1..size}

\* publish calls on the listeners of the default subscriptions
Calls_publish_default ==
    {Call("publish_default",
          <<PublishParams(DEFAULT_SYSTEMS, EventTypes[k], button, picked, enabled, state, hit)>>) :
        k \in 1..3, button \in {MOUSE_LEFT, MOUSE_RIGHT}, picked \in {0, 4}, enabled \in BOOLEAN,
        state \in {"not_hovering", "hovering_axis", "translate_on_axis"}, hit \in BOOLEAN}

\* the rig transform of a mouse_ray_check_axes_collision call, and the axis
\* tips get_mouse_ray_point_on_axis computes from it
CallRigMatrix(args) == create_transform_euler_xyz(Zero3, <<0, 0, args[3]>>, args[4])

CallTransformedAxes(args) == [i \in 1..3 |-> mul_vector3(CallRigMatrix(args), GIZMO_3D_AXES[i])]

\* the system as constructed, with one library call about to be made
LibraryInit ==
    /\ selected_entity_uid = 0
    /\ gizmo_state = "not_hovering"
    /\ gizmo_orientation = "global"
    /\ gizmo_selection_enabled = TRUE
    /\ focused_gizmo_axis_index = -1
    /\ focused_gizmo_plane = -1
    /\ focused_camera_uid = 0
    /\ mouse_screen_position = <<-1, -1>>
    /\ original_active_local_position = <<>>
    /\ original_active_world_matrix = <<>>
    /\ original_active_local_matrix = <<>>
    /\ local_axis_offset_point = Zero3
    /\ camera2gizmo_map = <<>>
    /\ transform_3d_pool = SceneTransforms
    /\ gizmo_3d_pool = <<>>
    /\ mesh_pool = <<>>
    /\ material_pool = <<>>
    /\ published = <<>>
    /\ last_event = Event("init", 0, <<>>)
    /\ drag_start_orientation = ""
    /\ drag_start_entity = 0
    /\ drags_started = 0
    /\ events_in_frame = 0
    /\ raised = ""
    /\ scenario = [original |-> 0, amended |-> 0]
    /\ gizmo_events = NoGizmoEvents
    /\ \/ call \in Calls_distance2_ray_segment(PlanePoints)
       \/ call \in Calls_mouse_ray_check_axes_collision(PlanePoints)
       \/ call \in Calls_screen_gl_position_pixels2viewport_position(MaxPoint)
       \/ call \in Calls_set_gizmo_scale
       \/ call \in Calls_intersect_ray_plane(PlanePoints)
       \/ call \in Calls_Transform3D_update
       \/ call \in Calls_publish
       \/ call \in Calls_publish_default
       \/ call \in Calls_RenderSystem_on_event
       \/ call \in Calls_is_inside_viewport(MaxPoint)
       \/ call \in Calls_intersect_ray_sphere(MaxPoint)
       \/ call \in Calls_update_transform_tree(MaxEntities)
       \/ call \in Calls_Transform3D_set("set_position")
       \/ call \in Calls_Transform3D_set("set_rotation")

system_vars == <<gizmo_vars, scene_vars, published, last_event, drag_start_orientation,
                 drag_start_entity, drags_started, events_in_frame, raised, scenario,
                 gizmo_events>>

Returns(fn, result) ==
    /\ call.fn = fn
    /\ ~call.returned
    /\ call' = [call EXCEPT !.result = result, !.returned = TRUE]
    /\ UNCHANGED system_vars

\* distance2_ray_segment together with the nearest_point_on_segment call it
\* makes
Return_distance2_ray_segment(n) ==
    Returns("distance2_ray_segment",
            [ts |-> n.ts, tr |-> n.tr,
             distance2 |-> Distance2At(n, call.params[1], call.params[2], call.params[3], call.params[4])])

Call_distance2_ray_segment ==
    Return_distance2_ray_segment(
        nearest_point_on_segment(call.params[1], call.params[2], call.params[3], call.params[4]))

Call_mouse_ray_check_axes_collision ==
    Returns("mouse_ray_check_axes_collision",
            ArgMinValid(intersect_ray_capsules(call.params[1], call.params[2], Zero3,
                                               CallTransformedAxes(call.params), call.params[4], 10)))

Call_screen_gl_position_pixels2viewport_position ==
    Returns("screen_gl_position_pixels2viewport_position",
            screen_gl_position_pixels2viewport_position(call.params[1], call.params[2]))

\* gizmo_scale of update(): set_gizmo_scale times
\* GIZMO_3D_VIEWPORT_SCALE_COEFFICIENT / viewport_height, as a fraction
gizmo_scale(view_matrix, object_position, viewport_height) ==
    Frac(set_gizmo_scale(view_matrix, object_position) * GIZMO_3D_VIEWPORT_SCALE_COEFFICIENT,
         viewport_height)

Call_set_gizmo_scale ==
    Returns("set_gizmo_scale", gizmo_scale(call.params[1], call.params[2], call.params[3]))

Call_intersect_ray_plane ==
    Returns("intersect_ray_plane",
            [plane |-> intersect_ray_plane(call.params[1], call.params[2], call.params[3], call.params[4]),
             boolean |-> intersect_ray_plane_boolean(call.params[1], call.params[2],
                                                     call.params[3], call.params[4])])

Call_Transform3D_update ==
    Returns("Transform3D_update", Transform3D_update(call.params[1]))

\* the systems subscribe in the order of the call, then the event is published
Call_publish ==
    Returns("publish",
            publish(SubscribeSystems(NoListeners, call.params[1].order, 1),
                    call.params[1].event_type, call.params[1]))

\* the systems subscribe by their tables, then the event is published
Call_publish_default ==
    Returns("publish_default",
            publish(SubscribeDefaults(NoListeners, 1, 1), call.params[1].event_type,
                    call.params[1]))

\* a render system as constructed handles the pointer events, then a left press
\* on entity 4
Call_RenderSystem_on_event ==
    LET enabled == EntitySelectionEnabledAfter(TRUE, call.params[1], 1)
    IN  Returns("RenderSystem_on_event",
                [entity_selection_enabled |-> enabled,
                 published |-> RenderSystemPublishes(
                                   "mouse_button_press",
                                   [entity_selection_enabled |-> enabled, button |-> MOUSE_LEFT,
                                    picked |-> 4])])

\* get_active_camera's test of one camera, and the conversion
\* get_mouse_ray_point_on_axis makes for the camera
Call_is_inside_viewport ==
    Returns("is_inside_viewport",
            [inside |-> is_inside_viewport(call.params[2], call.params[1]),
             viewport_position |->
                 screen_gl_position_pixels2viewport_position(call.params[1], call.params[2])])

\* the two sphere tests on the same ray and sphere
Call_intersect_ray_sphere ==
    Returns("intersect_ray_sphere",
            [sphere  |-> intersect_ray_sphere(call.params[1], call.params[2],
                                              call.params[3], call.params[4]),
             boolean |-> intersect_ray_sphere_boolean(call.params[1], call.params[2],
                                                      call.params[3], call.params[4])])

Call_update_transform_tree ==
    Returns("update_transform_tree", update_changed_tree(call.params[1]))

Call_set_position ==
    Returns("set_position", set_position(call.params[1], call.params[2]))

Call_set_rotation ==
    Returns("set_rotation", set_rotation(call.params[1], call.params[2]))

LibraryNext ==
    \/ Call_distance2_ray_segment
    \/ Call_mouse_ray_check_axes_collision
    \/ Call_screen_gl_position_pixels2viewport_position
    \/ Call_set_gizmo_scale
    \/ Call_intersect_ray_plane
    \/ Call_Transform3D_update
    \/ Call_publish
    \/ Call_publish_default
    \/ Call_RenderSystem_on_event
    \/ Call_is_inside_viewport
    \/ Call_intersect_ray_sphere
    \/ Call_update_transform_tree
    \/ Call_set_position
    \/ Call_set_rotation

LibrarySpec == LibraryInit /\ [][LibraryNext]_vars

(***************************************************************************)
(* Properties                                                              *)
(***************************************************************************)
SelectedTransform == transform_3d_pool[selected_entity_uid]

SelectedPosition == SelectedTransform.position

\* the ray of a pixel: cast through it from the camera whose viewport owns it
RayOf(pixel) == get_mouse_ray_point_on_axis(get_active_camera(pixel), pixel)

\* the pixel lies inside the viewport of a camera
InsideViewport(pixel) == get_active_camera(pixel) # 0 /\ RayOf(pixel).valid

\* the axis the ray of the pixel hits, -1 for none
HitAxis(pixel) ==
    mouse_ray_check_axes_collision(RayOf(pixel), get_active_camera(pixel),
                                   TransformedAxes(get_active_camera(pixel)))

\* the last step handled a mouse move in the given state, with an entity
\* selected and the pixel inside a camera viewport
MoveHandledIn(state) ==
    /\ last_event.type = "mouse_move"
    /\ last_event.state = state
    /\ selected_entity_uid # 0
    /\ InsideViewport(last_event.data)

\* the projection of the pixel's ray onto the focused axis of the drag
\* snapshot, with the axis direction resolved under the given orientation
ProjectedPoint(pixel, orientation) ==
    get_projected_point_on_axis(RayOf(pixel), original_active_world_matrix, orientation,
                                focused_gizmo_axis_index, selected_entity_uid)

DragPosition(original, offset, projected) == VAdd(original, VSub(projected, offset))

ScenarioPosition == transform_3d_pool[ScenarioEntity].position

\* what the end-to-end translate scenario promises at the steps hover, press,
\* move and release, given the step the behaviour has reached: after the move
\* over X the state is HOVERING_AXIS with focused axis 0, after the press it
\* is the axis-dragging state, after the move by 2 E's position.x is 2 larger
\* with y and z unchanged, after the release the state is NOT_HOVERING and
\* E keeps the new position
ScenarioHolds(step, hover) ==
    /\ step = hover =>
           gizmo_state = "hovering_axis" /\ focused_gizmo_axis_index = 0
    /\ step = hover + 1 => gizmo_state = "translating_on_axis"
    /\ step = hover + 2 =>
           ScenarioPosition = VAdd(SceneTransforms[ScenarioEntity].position, <<2, 0, 0>>)
    /\ step = hover + 3 =>
           /\ gizmo_state = "not_hovering"
           /\ ScenarioPosition = VAdd(SceneTransforms[ScenarioEntity].position, <<2, 0, 0>>)

C2_OnlyLeftReleaseEndsDrag ==
    (last_event.state = "translating_on_axis" /\ ~LeftButton(last_event, "mouse_button_release"))
        => gizmo_state = "translating_on_axis"

\* C2 witness: a deselection was handled during a drag and the drag goes on
C2_DeselectedWhileDragging ==
    /\ last_event.state = "translating_on_axis"
    /\ last_event.type = "entity_deselected"
    /\ gizmo_state = "translating_on_axis"

\* C3: in the axis-dragging state a mouse move sets the selected entity's
\* position to original_local_position + (new projected point -
\* local_axis_offset_point) and marks the transform dirty; the value is a
\* function of the snapshot and of that move's ray alone.  Example:
\* original (1,2,3), offset (0,0,0), projected (0,5,0) gives (1,7,3).
C3_DragMoveFromSnapshot ==
    /\ MoveHandledIn("translating_on_axis") =>
           /\ SelectedPosition =
                  DragPosition(original_active_local_position, local_axis_offset_point,
                               ProjectedPoint(last_event.data, gizmo_orientation))
           /\ SelectedTransform.input_values_updated
    /\ DragPosition(<<1, 2, 3>>, <<0, 0, 0>>, <<0, 5, 0>>) = <<1, 7, 3>>

\* C3 witness: a drag move has put the entity away from its drag-start position
C3_DragMoved ==
    /\ MoveHandledIn("translating_on_axis")
    /\ SelectedPosition # original_active_local_position
    /\ SelectedTransform.input_values_updated

\* C4: from the press that starts a drag until the release that ends it the
\* drag snapshot (original_active_local_position, original_active_world_matrix,
\* original_active_local_matrix) and local_axis_offset_point are not modified
\* by any step.
C4_SnapshotFrozenDuringDrag ==
    [][gizmo_state = "translating_on_axis" => UNCHANGED snapshot_vars]_vars

\* C4 witness: a frame update ran during a drag that has moved the entity
C4_UpdatedWhileDragged ==
    /\ gizmo_state = "translating_on_axis"
    /\ last_event.state = "translating_on_axis"
    /\ last_event.type = "update"
    /\ selected_entity_uid # 0
    /\ SelectedPosition # original_active_local_position

\* C5: orientation lock: the axis direction used by the mouse moves of a drag
\* is the one resolved under the orientation in force at the press that
\* started the drag, whatever gizmo_orientation has become since.
C5_OrientationLockedAtDragStart ==
    MoveHandledIn("translating_on_axis") =>
        SelectedPosition =
            DragPosition(original_active_local_position, local_axis_offset_point,
                         ProjectedPoint(last_event.data, drag_start_orientation))

\* C6: in NOT_HOVERING, with an entity selected and the pixel inside a camera
\* viewport, a mouse move whose ray hits an axis sets the focused axis index
\* to the hit axis, changes the state to HOVERING_AXIS and publishes
\* mouse-enter-gizmo carrying that index; a move that hits no axis leaves the
\* state NOT_HOVERING and publishes nothing.
C6_NotHoveringMove ==
    MoveHandledIn("not_hovering") =>
        IF HitAxis(last_event.data) # -1
        THEN /\ focused_gizmo_axis_index = HitAxis(last_event.data)
             /\ gizmo_state = "hovering_axis"
             /\ published = <<GizmoEvent("mouse_enter_gizmo_3d", HitAxis(last_event.data))>>
        ELSE /\ gizmo_state = "not_hovering"
             /\ published = <<>>

\* C6 witness: a move handled in NOT_HOVERING hit an axis and entered hovering
C6_EnteredHovering ==
    /\ MoveHandledIn("not_hovering")
    /\ HitAxis(last_event.data) # -1
    /\ gizmo_state = "hovering_axis"
    /\ published = <<GizmoEvent("mouse_enter_gizmo_3d", focused_gizmo_axis_index)>>

\* what a mouse move handled in HOVERING_AXIS promises: the hit test is re-run;
\* a hit keeps HOVERING_AXIS, makes the hit axis the focused one and publishes
\* neither enter nor leave; a miss gives NOT_HOVERING and publishes
\* mouse-leave-gizmo
HoveringMoveRerunsHitTest ==
    IF HitAxis(last_event.data) # -1
    THEN /\ gizmo_state = "hovering_axis"
         /\ focused_gizmo_axis_index = HitAxis(last_event.data)
         /\ published = <<>>
    ELSE /\ gizmo_state = "not_hovering"
         /\ Len(published) = 1
         /\ published[1].event_type = "mouse_leave_gizmo_3d"

\* C7 (as amended): in HOVERING_AXIS, while the mouse is not over the UI
\* (gizmo_selection_enabled), with an entity selected and the pixel inside a
\* camera viewport, a mouse move re-runs the hit test: a hit keeps
\* HOVERING_AXIS and makes the hit axis the focused one with no enter/leave
\* event; a miss gives NOT_HOVERING and publishes mouse-leave-gizmo.
C7_HoveringMoveWhileSelectionEnabled ==
    (MoveHandledIn("hovering_axis") /\ gizmo_selection_enabled) => HoveringMoveRerunsHitTest

\* C7 witness: a move handled in HOVERING_AXIS with selection enabled missed
\* every axis and left the gizmo
C7_LeftHovering ==
    /\ MoveHandledIn("hovering_axis")
    /\ gizmo_selection_enabled
    /\ HitAxis(last_event.data) = -1
    /\ gizmo_state = "not_hovering"
    /\ published = <<GizmoEvent("mouse_leave_gizmo_3d", -1)>>

\* C7 (as the specification words it): every mouse move handled in
\* HOVERING_AXIS re-runs the hit test, whether or not the mouse is over the UI
C7_HoveringMoveAlways ==
    MoveHandledIn("hovering_axis") => HoveringMoveRerunsHitTest

\* C8: in HOVERING_AXIS a left press (entity selected, mouse not over the UI,
\* press pixel inside a camera viewport) gives the axis-dragging state,
\* records the entity's current local position and world matrix as the drag
\* snapshot, sets local_axis_offset_point to the projection of the press ray
\* onto the focused axis in the parent's local space, publishes
\* gizmo-activated carrying the focused axis index and leaves that index
\* unchanged.
C8_PressStartsDragAtPressRay ==
    [][(/\ LeftButton(last_event', "mouse_button_press")
        /\ gizmo_state = "hovering_axis"
        /\ selected_entity_uid # 0
        /\ gizmo_selection_enabled
        /\ InsideViewport(last_event'.data))
       => (/\ gizmo_state' = "translating_on_axis"
           /\ original_active_local_position' = SelectedPosition
           /\ original_active_world_matrix' = SelectedTransform.world_matrix
           /\ local_axis_offset_point' =
                  get_projected_point_on_axis(RayOf(last_event'.data),
                                              SelectedTransform.world_matrix, gizmo_orientation,
                                              focused_gizmo_axis_index, selected_entity_uid)
           /\ published' = <<GizmoEvent("mouse_gizmo_3d_activated", focused_gizmo_axis_index)>>
           /\ focused_gizmo_axis_index' = focused_gizmo_axis_index)]_vars

\* C9: in the axis-dragging state a left release sets the state to
\* NOT_HOVERING, publishes mouse-leave-gizmo followed by gizmo-deactivated and
\* writes no transform: the entity's position stays the one written by the
\* last drag move.
C9_ReleaseEndsDrag ==
    [][(gizmo_state = "translating_on_axis" /\ LeftButton(last_event', "mouse_button_release"))
       => (/\ gizmo_state' = "not_hovering"
           /\ Len(published') = 2
           /\ published'[1].event_type = "mouse_leave_gizmo_3d"
           /\ published'[2].event_type = "mouse_gizmo_3d_deactivated"
           /\ transform_3d_pool' = transform_3d_pool)]_vars

\* C9 witness: a left release has ended a drag that had moved the entity
C9_ReleasedAfterDragMove ==
    /\ LeftButton(last_event, "mouse_button_release")
    /\ last_event.state = "translating_on_axis"
    /\ gizmo_state = "not_hovering"
    /\ selected_entity_uid # 0
    /\ original_active_local_position # <<>>
    /\ SelectedPosition # original_active_local_position

\* C10: in NOT_HOVERING a left press is a no-op for the gizmo: the state stays
\* NOT_HOVERING, the focused axis index is unchanged and no gizmo event is
\* published, even when the press ray passes over an axis.
C10_PressInNotHoveringIsNoOp ==
    [][(gizmo_state = "not_hovering" /\ LeftButton(last_event', "mouse_button_press"))
       => (/\ gizmo_state' = "not_hovering"
           /\ focused_gizmo_axis_index' = focused_gizmo_axis_index
           /\ published' = <<>>)]_vars

\* C11: a left mouse release while the gizmo is not dragging (state
\* NOT_HOVERING or HOVERING_AXIS) is a no-op: gizmo_state is unchanged and
\* neither mouse-leave-gizmo nor gizmo-deactivated is published.
C11_ReleaseWhenNotDraggingIsNoOp ==
    [][(/\ gizmo_state \in {"not_hovering", "hovering_axis"}
        /\ LeftButton(last_event', "mouse_button_release"))
       => (/\ gizmo_state' = gizmo_state
           /\ published' = <<>>)]_vars

\* C12: in every reachable state where gizmo_state is NOT_HOVERING the focused
\* axis index and the focused plane index are both -1.
C12_NoFocusWhenNotHovering ==
    gizmo_state = "not_hovering" =>
        (focused_gizmo_axis_index = -1 /\ focused_gizmo_plane = -1)

RigMeshesVisible(camera_uid) ==
    {mesh_pool[gizmo_3d_pool[camera2gizmo_map[camera_uid]].axes_entities_uids[k]].visible :
        k \in 1..3}

\* C14: after initialise() and after any sequence of events, for every
\* camera's rig all three axis-handle meshes have visible = true if and only
\* if selected_entity_uid is not None.
C14_RigsVisibleIffSelected ==
    Initialised =>
        \A i \in 1..Len(CameraPool) :
            RigMeshesVisible(CameraPool[i]) = {selected_entity_uid # 0}

\* C14 witness: an entity is selected and the rigs of all cameras are shown
C14_RigsShownWhileSelected ==
    /\ Initialised
    /\ selected_entity_uid # 0
    /\ \A i \in 1..Len(CameraPool) : RigMeshesVisible(CameraPool[i]) = {TRUE}

\* the transform Gizmo3DSystem.update leaves on the rig of a camera
RigAfterUpdate(camera_uid) == GizmoUpdateTransforms[camera2gizmo_map[camera_uid]]

\* C15: per-frame update: when no entity is selected update() changes no
\* transform and no highlight flag; when an entity is selected, after update()
\* every camera's rig transform has its scale set to the recomputed gizmo
\* scale, its position equal to the selected entity's position, its rotation
\* equal to the selected entity's rotation if the orientation is local and
\* zero if it is global, and input_values_updated set.
C15_UpdateWritesRigTransforms ==
    Initialised =>
        IF selected_entity_uid = 0
        THEN GizmoUpdateTransforms = transform_3d_pool /\ GizmoUpdateMaterials = material_pool
        ELSE \A i \in 1..Len(CameraPool) :
                 /\ RigAfterUpdate(CameraPool[i]).scale = GizmoScale(CameraPool[i])
                 /\ RigAfterUpdate(CameraPool[i]).position = SelectedPosition
                 /\ gizmo_orientation = "local" =>
                        RigAfterUpdate(CameraPool[i]).rotation = SelectedTransform.rotation
                 /\ gizmo_orientation = "global" =>
                        RigAfterUpdate(CameraPool[i]).rotation = Zero3
                 /\ RigAfterUpdate(CameraPool[i]).input_values_updated

\* C15 witness: a frame update has run with a rotated, moved entity selected
\* under the global orientation, and the rigs sit at the entity unrotated
C15_UpdatedRigOfDraggedEntity ==
    /\ last_event.type = "update"
    /\ selected_entity_uid # 0
    /\ gizmo_orientation = "global"
    /\ SelectedTransform.rotation # Zero3
    /\ SelectedPosition # Zero3
    /\ \A i \in 1..Len(CameraPool) :
           /\ transform_3d_pool[camera2gizmo_map[CameraPool[i]]].position = SelectedPosition
           /\ transform_3d_pool[camera2gizmo_map[CameraPool[i]]].rotation = Zero3

\* the axis indices (0, 1, 2) of a camera's rig whose material is highlighted
HighlightedAxes(camera_uid) ==
    {k \in 0..2 :
        material_pool[gizmo_3d_pool[camera2gizmo_map[camera_uid]].axes_entities_uids[k + 1]].state_highlighted}

\* C16: highlight follows focus: in every reachable state with gizmo_state =
\* HOVERING_AXIS exactly the focused axis's material is highlighted and the
\* other two are not; in every reachable state with gizmo_state = NOT_HOVERING
\* (right after a mouse release included) no axis material is highlighted.
C16_HighlightFollowsFocus ==
    Initialised =>
        \A i \in 1..Len(CameraPool) :
            /\ gizmo_state = "hovering_axis" =>
                   HighlightedAxes(CameraPool[i]) = {focused_gizmo_axis_index}
            /\ gizmo_state = "not_hovering" => HighlightedAxes(CameraPool[i]) = {}

\* the cameras whose viewport contains the pixel, as indices of the pool
CamerasContaining(pixel) ==
    {i \in 1..Len(CameraPool) :
        is_inside_viewport(camera_pool[CameraPool[i]].viewport_pixels, pixel)}

\* the earliest-registered camera whose viewport contains the pixel, 0 for none
FirstCameraContaining(pixel) ==
    IF CamerasContaining(pixel) = {} THEN 0
    ELSE CameraPool[CHOOSE i \in CamerasContaining(pixel) :
                        \A j \in CamerasContaining(pixel) : i <= j]

\* the last event was a mouse event that resolved its camera
ResolvedCamera ==
    /\ selected_entity_uid # 0
    /\ \/ last_event.type = "mouse_move"
       \/ last_event.type = "mouse_button_press" /\ last_event.button = MOUSE_LEFT

\* C17: camera resolution: the camera that owns a mouse event at pixel p is
\* the first camera, in registration order, whose viewport contains p; when
\* several viewports contain p the earliest-registered one is chosen, and
\* when none contains p no camera is chosen.
C17_FirstCameraOwnsEvent ==
    ResolvedCamera => focused_camera_uid = FirstCameraContaining(last_event.data)

\* C18: a mouse move or mouse press at a pixel outside every registered
\* camera viewport raises no exception and is a no-op for the gizmo:
\* gizmo_state, the focused axis index, the drag snapshot and every transform
\* are unchanged and no gizmo event is published.
C18_EventOutsideViewportsIsNoOp ==
    [][(/\ last_event'.type \in {"mouse_move", "mouse_button_press"}
        /\ CamerasContaining(last_event'.data) = {})
       => (/\ raised' = ""
           /\ UNCHANGED <<gizmo_state, focused_gizmo_axis_index, snapshot_vars, transform_3d_pool>>
           /\ published' = <<>>)]_vars

\* C18 witness: a left press outside every viewport was delivered while an
\* entity was selected and the mouse hovered an axis
C18_PressedOutsideWhileHovering ==
    /\ last_event.type = "mouse_button_press"
    /\ last_event.button = MOUSE_LEFT
    /\ CamerasContaining(last_event.data) = {}
    /\ selected_entity_uid # 0
    /\ last_event.state = "hovering_axis"
    /\ gizmo_state = "hovering_axis"
    /\ focused_camera_uid = 0

\* the step is the per-frame update, or a mouse move or left press that
\* reaches the handler of a hovering or dragging state
UpdateOrHoverDragHandlerRuns ==
    \/ last_event'.type = "update"
    \/ /\ \/ last_event'.type = "mouse_move"
          \/ last_event'.type = "mouse_button_press" /\ last_event'.button = MOUSE_LEFT
       /\ CamerasContaining(last_event'.data) # {}
       /\ gizmo_selection_enabled
       /\ gizmo_state \in {"hovering_axis", "translating_on_axis"}

\* C19: missing entity: if selected_entity_uid refers to an entity that is no
\* longer in the transform store when the per-frame update or a hover/drag
\* handler runs, the system does not raise; it transitions to NOT_HOVERING,
\* clears selected_entity_uid and hides all rigs.
C19_MissingEntityHandled ==
    [][(/\ selected_entity_uid # 0
        /\ selected_entity_uid \notin DOMAIN transform_3d_pool
        /\ UpdateOrHoverDragHandlerRuns)
       => (/\ raised' = ""
           /\ gizmo_state' = "not_hovering"
           /\ selected_entity_uid' = 0
           /\ \A i \in 1..Len(CameraPool) : RigMeshesVisible(CameraPool[i])' = {FALSE})]_vars

\* camera2gizmo_map holds exactly one rig for every camera of the pool, and
\* the scene holds no other rig
OneRigPerCamera ==
    /\ DOMAIN camera2gizmo_map = {CameraPool[i] : i \in 1..Len(CameraPool)}
    /\ \A c, d \in DOMAIN camera2gizmo_map :
           camera2gizmo_map[c] = camera2gizmo_map[d] => c = d
    /\ DOMAIN gizmo_3d_pool = {camera2gizmo_map[c] : c \in DOMAIN camera2gizmo_map}

\* C20: rig lifecycle: after initialise() camera2gizmo_map holds exactly one
\* gizmo rig for every camera in the camera pool; a second initialise()
\* creates no further rig for a camera already mapped; no event handler and
\* no per-frame update ever adds, replaces or removes an entry of
\* camera2gizmo_map.
C20_RigLifecycle ==
    [][/\ last_event'.type = "initialise" => OneRigPerCamera'
       /\ Initialised => (/\ camera2gizmo_map' = camera2gizmo_map
                          /\ gizmo_3d_pool' = gizmo_3d_pool)]_vars

\* C20 witness: initialise() has run a second time, with an entity selected,
\* and the map still holds one rig per camera
C20_InitialisedTwice ==
    /\ last_event.type = "initialise"
    /\ selected_entity_uid # 0
    /\ OneRigPerCamera

\* ---- the geometry the ray tests are measured against ----
FracLeq(x, y) == x[1] * y[2] <= y[1] * x[2]

FracMax0(x) == IF x[1] < 0 THEN <<0, 1>> ELSE x

FracClamp01(x) == IF x[1] < 0 THEN <<0, 1>> ELSE IF x[1] > x[2] THEN <<1, 1>> ELSE x

\* squared distance between the point o + u d of the ray and the point
\* p0 + v (p1 - p0) of the segment, u and v fractions
SquaredGap(u, v, o, d, p0, p1) ==
    LET w == VSub(VAdd(VScale(u[1] * v[2], d), VScale(u[2] * v[2], VSub(o, p0))),
                  VScale(v[1] * u[2], VSub(p1, p0)))
    IN  Frac(Length2(w), u[2] * u[2] * v[2] * v[2])

\* the places where the squared distance between a ray (u >= 0) and a segment
\* (0 <= v <= 1) can be minimal: the common perpendicular when it meets both,
\* the feet of the segment's end points on the ray, and the point of the
\* segment nearest to the ray's origin
NearestCandidates(o, d, p0, p1) ==
    LET ldir == VSub(p1, p0)
        p == VSub(p0, o)
        c == Length2(d)
        q == Length2(ldir)
        R == Dot(ldir, d)
        s == Dot(ldir, p)
        T == Dot(d, p)
        denom == q * c - R * R
        inner == IF denom > 0 /\ q * T - R * s >= 0 /\ R * T - s * c >= 0 /\ R * T - s * c <= denom
                 THEN {<<Frac(q * T - R * s, denom), Frac(R * T - s * c, denom)>>}
                 ELSE {}
    IN  inner \cup {<<FracMax0(Frac(T, c)), <<0, 1>>>>,
                    <<FracMax0(Frac(T + R, c)), <<1, 1>>>>,
                    <<<<0, 1>>, IF q = 0 THEN <<0, 1>> ELSE FracClamp01(Frac(-s, q))>>}

\* the minimal squared distance between the ray and the segment
MinimalDistance2(o, d, p0, p1) ==
    LET gaps == {SquaredGap(uv[1], uv[2], o, d, p0, p1) : uv \in NearestCandidates(o, d, p0, p1)}
    IN  CHOOSE g \in gaps : \A h \in gaps : FracLeq(g, h)

\* C24: distance2_ray_segment returns the minimal squared distance between
\* the ray and the finite segment p0-p1: the nearest point computed by
\* nearest_point_on_segment always lies on the segment (its segment parameter
\* is within [0, 1]), so a segment lying entirely behind the ray origin at a
\* distance greater than radius is never reported as a capsule hit.
C24_NearestPointOnSegment ==
    (call.fn = "distance2_ray_segment" /\ call.returned) =>
        /\ FracLeq(<<0, 1>>, call.result.ts)
        /\ FracLeq(call.result.ts, <<1, 1>>)
        /\ call.result.distance2 =
               MinimalDistance2(call.params[1], call.params[2], call.params[3], call.params[4])

\* the axes of a mouse_ray_check_axes_collision call whose capsule the ray
\* passes through: indices 0, 1, 2
AxesHit(args) ==
    {i \in 0..2 :
        WithinRadius(MinimalDistance2(args[1], args[2], Zero3, CallTransformedAxes(args)[i + 1]),
                     args[4], 10)}

\* the ray distance the capsule test reports for axis i
ReportedDistance(args, i) ==
    intersect_ray_capsule(args[1], args[2], Zero3, CallTransformedAxes(args)[i + 1], args[4], 10)

FracEq(x, y) == x[1] * y[2] = y[1] * x[2]

\* the pixel lies in the rectangle [x, x + w] x [y, y + h], boundary included
InRect(pixel, rect) ==
    /\ rect[1] <= pixel[1] /\ pixel[1] <= rect[1] + rect[3]
    /\ rect[2] <= pixel[2] /\ pixel[2] <= rect[2] + rect[4]

\* 2 * ((p - x) / w) - 1 as a fraction
Ndc(p, x, w) == <<2 * (p - x) - w, w>>

NdcPoint(x, y) == <<<<x, 1>>, <<y, 1>>>>

SameNdc(a, b) == FracEq(a[1], b[1]) /\ FracEq(a[2], b[2])

\* C22: pixel_to_viewport_ndc: for a viewport rect (x, y, w, h) and a pixel
\* p, the result is None exactly when p lies outside the rect
\* [x, x+w] x [y, y+h] (pixels on the boundary count as inside); otherwise it
\* is 2*((p - (x,y))/(w,h)) - 1 with both coordinates in [-1, 1].  For rect
\* (0,0,800,600): (400,300) -> (0,0), (0,0) -> (-1,-1), (800,600) -> (1,1),
\* (900,300) -> None.
C22_PixelToViewport ==
    (call.fn = "screen_gl_position_pixels2viewport_position" /\ call.returned) =>
        /\ (call.result = <<>>) <=> ~InRect(call.params[1], call.params[2])
        /\ call.result # <<>> =>
               /\ FracEq(call.result[1], Ndc(call.params[1][1], call.params[2][1], call.params[2][3]))
               /\ FracEq(call.result[2], Ndc(call.params[1][2], call.params[2][2], call.params[2][4]))
               /\ \A k \in 1..2 : FracLeq(<<-1, 1>>, call.result[k]) /\ FracLeq(call.result[k], <<1, 1>>)
        /\ call.params = <<<<400, 300>>, WindowRect>> => SameNdc(call.result, NdcPoint(0, 0))
        /\ call.params = <<<<0, 0>>, WindowRect>> => SameNdc(call.result, NdcPoint(-1, -1))
        /\ call.params = <<<<800, 600>>, WindowRect>> => SameNdc(call.result, NdcPoint(1, 1))
        /\ call.params = <<<<900, 300>>, WindowRect>> => call.result = <<>>

\* C22 witness: the call for pixel (800, 600) of the 800 x 600 window has
\* returned the corner (1, 1)
C22_WindowCornerConverted ==
    /\ call.fn = "screen_gl_position_pixels2viewport_position"
    /\ call.returned
    /\ call.params = <<<<800, 600>>, WindowRect>>
    /\ call.result # <<>>
    /\ SameNdc(call.result, NdcPoint(1, 1))

\* |view_z|: the depth of the object in front of or behind the camera
ViewDepth(view_matrix, object_position) == Abs(mul_vector3(view_matrix, object_position)[3])

\* C23: the gizmo screen scale is monotonically increasing in |view_z|, is
\* strictly positive for every finite non-negative depth, and equals a small
\* positive epsilon floor (never 0) when the selected object is at view
\* depth 0.
C23_ScalePositiveAndMonotonic ==
    (call.fn = "set_gizmo_scale" /\ call.returned) =>
        /\ FracLess(<<0, 1>>, call.result)
        /\ \A o \in ObjectPositions :
               ViewDepth(call.params[1], o) <= ViewDepth(call.params[1], call.params[2])
               => FracLeq(gizmo_scale(call.params[1], o, call.params[3]), call.result)

\* the ray is parallel to the plane, or meets the plane's carrier behind its
\* origin: (n.n k - n.o) and n.d have opposite signs
ParallelOrBehind(o, d, n, k) ==
    \/ Dot(n, d) = 0
    \/ (Dot(n, n) * k - Dot(n, o)) * Dot(n, d) < 0

\* the point o + t d satisfies the plane equation n.x = (n.n) k
OnPlane(t, o, d, n, k) ==
    t[2] * Dot(n, o) + t[1] * Dot(n, d) = t[2] * Dot(n, n) * k

\* C25: intersect_ray_plane reports no hit exactly when dot(normal,
\* direction) = 0 or the computed parameter t is negative; otherwise it
\* reports a hit with t >= 0; intersect_ray_plane_boolean returns true for
\* exactly the inputs on which intersect_ray_plane reports a hit.
C25_RayPlane ==
    (call.fn = "intersect_ray_plane" /\ call.returned) =>
        /\ ~call.result.plane.hit
               <=> ParallelOrBehind(call.params[1], call.params[2], call.params[3], call.params[4])
        /\ call.result.plane.hit =>
               /\ FracLeq(<<0, 1>>, call.result.plane.t)
               /\ OnPlane(call.result.plane.t, call.params[1], call.params[2], call.params[3], call.params[4])
        /\ call.result.boolean = call.result.plane.hit

\* C25 witness: both tests have reported a hit for a ray that starts on the
\* plane and leaves it (t = 0)
C25_RayStartsOnPlane ==
    /\ call.fn = "intersect_ray_plane"
    /\ call.returned
    /\ call.result.plane.hit
    /\ call.result.plane.t = <<0, 1>>
    /\ call.result.boolean
    /\ Dot(call.params[3], call.params[2]) # 0

\* C26: Transform3D.update(): if local_matrix_updated is set, position and
\* rotation are overwritten from local_matrix and local_matrix is left
\* unchanged, even when input_values_updated is also set; otherwise, if
\* input_values_updated is set, local_matrix is rebuilt from
\* position/rotation/scale; with neither flag set nothing changes; in every
\* case both flags are false after the call, so the two directions never both
\* run in one update.
C26_TransformUpdateDirections ==
    (call.fn = "Transform3D_update" /\ call.returned) =>
        /\ call.params[1].local_matrix_updated =>
               /\ call.result.position = Translation(call.params[1].local_matrix)
               /\ call.result.rotation = to_euler_xyz(call.params[1].local_matrix)
               /\ call.result.local_matrix = call.params[1].local_matrix
        /\ (~call.params[1].local_matrix_updated /\ call.params[1].input_values_updated) =>
               /\ call.result.local_matrix =
                      create_transform_euler_xyz(call.params[1].position, call.params[1].rotation,
                                                 call.params[1].scale)
               /\ call.result.position = call.params[1].position
               /\ call.result.rotation = call.params[1].rotation
        /\ (~call.params[1].local_matrix_updated /\ ~call.params[1].input_values_updated) =>
               call.result = call.params[1]
        /\ ~call.result.local_matrix_updated
        /\ ~call.result.input_values_updated
        /\ call.result.scale = call.params[1].scale
        /\ call.result.world_matrix = call.params[1].world_matrix

\* C26 witness: update() has returned for a component that had both flags
\* set and whose pending position and rotation differed from the ones in its
\* local matrix: the pending values are gone
C26_PendingInputsDiscarded ==
    /\ call.fn = "Transform3D_update"
    /\ call.returned
    /\ call.params[1].local_matrix_updated
    /\ call.params[1].input_values_updated
    /\ call.params[1].position # Translation(call.params[1].local_matrix)
    /\ call.params[1].rotation # to_euler_xyz(call.params[1].local_matrix)
    /\ call.result.position = Translation(call.params[1].local_matrix)
    /\ call.result.rotation # call.params[1].rotation

\* ---- synchronous delivery ----

PublishReturned == call.fn = "publish" /\ call.returned

\* the handlers entered at one depth, in the order they were entered
Enters(trace, depth) ==
    LET entered(s) == s.step = "enter" /\ s.depth = depth
    IN  SelectSeq(trace, entered)

\* every event of events entering every listener of order, event after event
ExpectedEnters(events, order, depth) ==
    [n \in 1..(Len(events) * Len(order)) |->
        DeliveryStep("enter", order[((n - 1) % Len(order)) + 1],
                     events[((n - 1) \div Len(order)) + 1], depth)]

\* trace[j] is the return of the handler entered at trace[i]
HandlerInterval(trace, i, j) ==
    /\ i < j
    /\ trace[i].step = "enter"
    /\ trace[j] = [trace[i] EXCEPT !.step = "exit"]
    /\ \A k \in (i + 1)..(j - 1) : trace[k].depth > trace[i].depth

\* the event reaches every listener in subscription order, publish returns
\* when the last handler has, and what a handler publishes reaches every
\* listener in subscription order before that handler returns
DeliveredDepthFirst(p, trace) ==
    /\ Enters(trace, 0) = ExpectedEnters(<<p.event_type>>, p.order, 0)
    /\ trace[Len(trace)] = DeliveryStep("exit", p.order[Len(p.order)], p.event_type, 0)
    /\ \A i \in 1..Len(trace) :
          trace[i].step = "enter" =>
              \E j \in (i + 1)..Len(trace) :
                  /\ HandlerInterval(trace, i, j)
                  /\ Enters(SubSeq(trace, i + 1, j - 1), trace[i].depth + 1)
                         = ExpectedEnters(Publishes(trace[i].listener, trace[i].event_type, p),
                                          p.order, trace[i].depth + 1)
    /\ \A k \in 1..Len(trace) :
          trace[k].depth > 0 =>
              \E i \in 1..(k - 1), j \in (k + 1)..Len(trace) :
                  HandlerInterval(trace, i, j) /\ trace[i].depth = trace[k].depth - 1

\* between two steps of the delivery of one event no other event is handled
NoOtherEventBetween(trace) ==
    \A i \in 1..Len(trace), j \in 1..Len(trace) :
        (i < j /\ trace[i].event_type = trace[j].event_type /\ trace[i].depth = trace[j].depth)
            => \A k \in i..j : trace[k].event_type = trace[i].event_type

C28_PressRayFromPressPixel ==
    [][(LeftButton(last_event', "mouse_button_press") /\ selected_entity_uid # 0)
       => ScreenToRayAndDispatch(last_event'.data, last_event'.data, TRUE)]_vars

\* ---- the focused axis while hovering or dragging ----

\* C30: whenever gizmo_state is HOVERING_AXIS or TRANSLATING_ON_AXIS the
\* focused axis index is one of 0, 1, 2, never -1, after any sequence of mouse,
\* selection, UI and parameter events
C30_FocusedAxisWhileHoveringOrDragging ==
    gizmo_state \in {"hovering_axis", "translating_on_axis"}
        => focused_gizmo_axis_index \in 0..2

\* a drag on axis X goes on after a selection, UI or parameter event was
\* handled
C30_DraggingAfterOtherEvents ==
    /\ gizmo_state = "translating_on_axis"
    /\ focused_gizmo_axis_index = 0
    /\ last_event.type \in {"entity_deselected", "mouse_enter_ui", "parameter_updated"}
    /\ last_event.state = "translating_on_axis"

\* ---- the entity a drag writes ----

\* a mouse move handled in the axis-dragging state has written the position of
\* the selected entity
DragMoveWrites ==
    /\ last_event'.type = "mouse_move"
    /\ gizmo_state = "translating_on_axis"
    /\ selected_entity_uid \in DOMAIN transform_3d_pool
    /\ transform_3d_pool'[selected_entity_uid] # transform_3d_pool[selected_entity_uid]

\* C29: every write of an entity's position by the drag handler uses a snapshot
\* captured from that same entity: when the selection changes to another entity
\* while gizmo_state is axis-dragging, a later mouse move never sets the newly
\* selected entity's position from the previously selected entity's
\* original_active_local_position
C29_DragWritesSnapshotEntity ==
    [][DragMoveWrites => drag_start_entity = selected_entity_uid]_vars

\* ---- a click that picks an entity ----

\* a left press that picked an entity was published to the default listeners
PickingPressPublished ==
    /\ call.fn = "publish_default"
    /\ call.returned
    /\ call.params[1].event_type = "mouse_button_press"
    /\ call.params[1].button = MOUSE_LEFT
    /\ call.params[1].entity_selection_enabled
    /\ call.params[1].picked >= COMPONENT_POOL_STARTING_ID_COUNTER

\* C31: when a left mouse press picks an entity, the gizmo system's mouse-press
\* handler for that click runs before its entity_selected handler, so the press
\* is evaluated against the selection that existed before the click
C31_PressHandledBeforeSelection ==
    PickingPressPublished =>
        \E i \in 1..Len(call.result), j \in 1..Len(call.result) :
            /\ i < j
            /\ call.result[i] = DeliveryStep("enter", GIZMO_3D_SYSTEM, "mouse_button_press", 0)
            /\ call.result[j] = DeliveryStep("enter", GIZMO_3D_SYSTEM, "entity_selected", 1)

\* ---- picking under the UI and the gizmo ----

\* the last event of the sequence that is in entering or in leaving, "" for none
RECURSIVE LastOf(_, _, _)
LastOf(events, kinds, k) ==
    IF k = 0 THEN ""
    ELSE IF events[k] \in kinds THEN events[k]
    ELSE LastOf(events, kinds, k - 1)

\* the pointer is over the UI: the last UI event is an enter
OverUI(events) ==
    LastOf(events, {"mouse_enter_ui", "mouse_leave_ui"}, Len(events)) = "mouse_enter_ui"

\* the pointer is over the gizmo: a hover or enter event that no leave event
\* and no release, which publishes the leave event, has followed
OverGizmo(events) ==
    LastOf(events, {"mouse_hover_gizmo_3d", "mouse_enter_gizmo_3d", "mouse_leave_gizmo_3d",
                    "mouse_button_release"}, Len(events))
        \in {"mouse_hover_gizmo_3d", "mouse_enter_gizmo_3d"}

\* C32: entity picking is blocked while the pointer is over the UI or over the
\* gizmo: between a mouse-enter-UI and the matching mouse-leave-UI, and between
\* a gizmo hover/enter event and the matching mouse-leave-gizmo,
\* entity_selection_enabled is false and a left press publishes neither
\* entity_selected nor entity_deselected, for every interleaving of the events
C32_NoPickingOverUIOrGizmo ==
    (/\ call.fn = "RenderSystem_on_event"
     /\ call.returned
     /\ OverUI(call.params[1]) \/ OverGizmo(call.params[1]))
        => (~call.result.entity_selection_enabled /\ call.result.published = <<>>)

\* ---- the gizmo under the UI ----

\* C33: while gizmo_selection_enabled is false (after mouse_enter_ui and before
\* mouse_leave_ui) no event moves the gizmo into the axis-dragging state: a left
\* press in HOVERING_AXIS is ignored and publishes no gizmo-activated event
C33_NoDragStartsUnderUI ==
    [][~gizmo_selection_enabled =>
          /\ (gizmo_state # "translating_on_axis" => gizmo_state' # "translating_on_axis")
          /\ (LeftButton(last_event', "mouse_button_press") /\ gizmo_state = "hovering_axis")
                 => /\ gizmo_state' = "hovering_axis"
                    /\ published' = <<>>
                    /\ UNCHANGED <<snapshot_vars, transform_3d_pool>>]_vars

\* a left press inside a viewport was handled in HOVERING_AXIS with an entity
\* selected and the mouse over the UI, and the gizmo is still hovering
C33_PressIgnoredUnderUI ==
    /\ LeftButton(last_event, "mouse_button_press")
    /\ last_event.state = "hovering_axis"
    /\ ~gizmo_selection_enabled
    /\ selected_entity_uid # 0
    /\ InsideViewport(last_event.data)
    /\ gizmo_state = "hovering_axis"
    /\ published = <<>>

\* ---- the order of the gizmo events ----

\* the k-th event published by the last step is a gizmo-activated event
ActivatedAt(k) == published[k].event_type = "mouse_gizmo_3d_activated"

C35_InsideViewportIsRectangleTest ==
    (call.fn = "is_inside_viewport" /\ call.returned) =>
        /\ call.result.inside = InRect(call.params[1], call.params[2])
        /\ call.result.inside => call.result.viewport_position # <<>>

\* ---- the two sphere tests ----

\* C36: intersect_ray_sphere_boolean returns true for exactly the inputs on
\* which intersect_ray_sphere reports a hit (unit ray direction), including
\* rays whose origin lies inside the sphere with the centre behind the origin;
\* when a hit is reported 0 <= t0 <= t1
C36_SphereTestsAgree ==
    (call.fn = "intersect_ray_sphere" /\ call.returned) =>
        /\ call.result.boolean = call.result.sphere.hit
        /\ call.result.sphere.hit =>
              /\ SurdLeq(<<0, 0, call.result.sphere.t0[3]>>, call.result.sphere.t0)
              /\ SurdLeq(call.result.sphere.t0, call.result.sphere.t1)

\* ---- the update order of the transform tree ----

\* the position of entity uid in the update order
PositionIn(order, uid) == CHOOSE k \in 1..Len(order) : order[k] = uid

RECURSIVE ExpectedWorldMatrix(_, _)
\* parent.world_matrix * local_matrix with an up-to-date parent
ExpectedWorldMatrix(entities, uid) ==
    IF ParentUid(entities, uid) = -1 THEN uid
    ELSE ExpectedWorldMatrix(entities, ParentUid(entities, uid)) + uid

\* C37: after TransformSystem.update_transform_tree(), entity_uid_update_order
\* is a permutation of the scene's entity uids in which every entity with a
\* parent appears after its parent, for every parent-child forest and every
\* insertion order, so that world_matrix = parent.world_matrix * local_matrix
\* is computed from an already-updated parent
C37_ParentsUpdatedBeforeChildren ==
    (call.fn = "update_transform_tree" /\ call.returned) =>
        LET entities == call.params[1]
            order    == call.result.entity_uid_update_order
            uids     == {entities[k][1] : k \in 1..Len(entities)}
        IN  /\ Len(order) = Len(entities)
            /\ {order[k] : k \in 1..Len(order)} = uids
            /\ \A uid \in uids :
                  ParentUid(entities, uid) # -1 =>
                      PositionIn(order, ParentUid(entities, uid)) < PositionIn(order, uid)
            /\ \A uid \in uids :
                  call.result.world_matrix[uid] = ExpectedWorldMatrix(entities, uid)

\* ---- the setters of a transform ----

\* C38: Transform3D.set_rotation(r) sets rotation to r, leaves position and
\* scale unchanged and sets the dirty flag; Transform3D.set_position(p) sets
\* position to p, leaves rotation and scale unchanged and sets the dirty flag
C38_SettersWriteTheirOwnField ==
    /\ (call.fn = "set_rotation" /\ call.returned) =>
          /\ call.result.rotation = call.params[2]
          /\ call.result.position = call.params[1].position
          /\ call.result.scale = call.params[1].scale
          /\ call.result.input_values_updated
    /\ (call.fn = "set_position" /\ call.returned) =>
          /\ call.result.position = call.params[2]
          /\ call.result.rotation = call.params[1].rotation
          /\ call.result.scale = call.params[1].scale
          /\ call.result.input_values_updated

====
